---- MODULE Spec2Model ----
(***************************************************************************)
(* Model of the ticket bot: the rate limiter (utils.js), the ticket        *)
(* lifecycle (handlers/ticketHandler.js, models/ticket.js) and the         *)
(* mini-game engine (handlers/gameHandler.js).                             *)
(*                                                                         *)
(* Every handler is an async function.  It runs without interruption from  *)
(* the delivery of its event to its first await, and from the completion   *)
(* of one awaited call to the next await.  An action of this module is one *)
(* such uninterrupted piece; a handler that is suspended at an await is a  *)
(* record in ticketOps / gameOps whose pc names the awaited call.          *)
(***************************************************************************)
EXTENDS Integers, Sequences, FiniteSets, TLC

(***************************************************************************)
(* Program constants.                                                      *)
(***************************************************************************)
TICKET_WINDOW_MS == 60000
TICKET_MAX_REQUESTS == 3
GAME_WINDOW_MS == 10000
GAME_MAX_REQUESTS == 5
GUESS_MAX_ATTEMPTS == 7
GUESS_RANGE_MIN == 1
GUESS_RANGE_MAX == 100
MAX_WRONG_GUESSES == 6

TICKET_RATE_LIMIT == [WINDOW_MS |-> TICKET_WINDOW_MS, MAX_REQUESTS |-> TICKET_MAX_REQUESTS]
GAME_RATE_LIMIT == [WINDOW_MS |-> GAME_WINDOW_MS, MAX_REQUESTS |-> GAME_MAX_REQUESTS]

(***************************************************************************)
(* Tic-Tac-Toe: pure functions of GameHandler.  A board is a tuple of nine *)
(* cells; cell i of the code (0..8) is board[i + 1]; Null is an empty cell.*)
(***************************************************************************)
Null == "null"
Cells == 0 .. 8
EmptyBoard == [i \in 1 .. 9 |-> Null]

winPatterns ==
  << <<0, 1, 2>>, <<3, 4, 5>>, <<6, 7, 8>>,
     <<0, 3, 6>>, <<1, 4, 7>>, <<2, 5, 8>>,
     <<0, 4, 8>>, <<2, 4, 6>> >>

BoardFull(board) == \A i \in 1 .. 9 : board[i] # Null

\* First pattern, in the order of winPatterns, whose three cells hold the same symbol.
RECURSIVE FirstLine(_, _)
FirstLine(board, k) ==
  IF k > Len(winPatterns) THEN Null
  ELSE LET a == winPatterns[k][1] + 1
           b == winPatterns[k][2] + 1
           c == winPatterns[k][3] + 1
       IN IF board[a] # Null /\ board[a] = board[b] /\ board[a] = board[c]
          THEN board[a]
          ELSE FirstLine(board, k + 1)

checkTicTacToeWinner(board) ==
  LET line == FirstLine(board, 1)
  IN IF line # Null THEN line
     ELSE IF BoardFull(board) THEN "tie"
     ELSE Null

\* board.map(...).filter(...): the empty cells in ascending order.
RECURSIVE availableFrom(_, _)
availableFrom(board, i) ==
  IF i > 8 THEN << >>
  ELSE IF board[i + 1] = Null THEN <<i>> \o availableFrom(board, i + 1)
  ELSE availableFrom(board, i + 1)

availableMoves(board) == availableFrom(board, 0)

Place(board, i, sym) == [board EXCEPT ![i + 1] = sym]

NoIndex == -1

\* The "choose best move" loops: the first move that is strictly better than
\* everything before it wins.
RECURSIVE bestOf(_, _, _, _, _)
bestOf(moves, k, bestScore, bestMove, maximize) ==
  IF k > Len(moves) THEN bestMove
  ELSE IF (maximize /\ moves[k].score > bestScore) \/ (~maximize /\ moves[k].score < bestScore)
       THEN bestOf(moves, k + 1, moves[k].score, moves[k], maximize)
       ELSE bestOf(moves, k + 1, bestScore, bestMove, maximize)

RECURSIVE minimax(_, _, _, _)
minimax(board, player, opponent, aiPlayer) ==
  LET winner == checkTicTacToeWinner(board)
  IN IF winner = player THEN [score |-> 10, index |-> NoIndex]
     ELSE IF winner = opponent THEN [score |-> -10, index |-> NoIndex]
     ELSE IF winner = "tie" THEN [score |-> 0, index |-> NoIndex]
     ELSE LET avail == availableMoves(board)
              moves == [k \in 1 .. Len(avail) |->
                          [index |-> avail[k],
                           score |-> minimax(Place(board, avail[k], player),
                                             opponent, player, aiPlayer).score]]
          IN IF player = aiPlayer
             THEN bestOf(moves, 1, -10000, [score |-> 0, index |-> NoIndex], TRUE)
             ELSE bestOf(moves, 1, 10000, [score |-> 0, index |-> NoIndex], FALSE)

(***************************************************************************)
(* Bounds of the model.                                                    *)
(***************************************************************************)
MaxDenied == 1         \* calls of one key beyond the limit of its window
MaxSelects == 2        \* ticket-type selections per user
MaxChannels == 2       \* ticket channels ever created
MaxForms == 2          \* ticket creation forms one user has open at a time
MaxTicketOps == 2      \* ticket handlers suspended at an await at the same time
MaxCloseAttempts == 2  \* close_reason_modal submissions
MaxClaimAttempts == 2  \* claim_ticket presses that pass the staff check
MaxGames == 2          \* game sessions ever started
MaxStartReqs == 2      \* game-start requests of one user
MaxGameOps == 2        \* game handlers suspended at an await at the same time

Users == {"u1", "s1", "s2"}
InitialStaff == {"s1", "s2"}
Players == {"u1"}
Reasons == {"resolved", "spam"}
NoUser == "nobody"

Customers == {"u1"}   \* who opens tickets in the creation specification
Revocable == {"s2"}   \* whose staff role an administrator may take away
Agents == {"s1"}      \* who presses claim and close in the creation specification
RateKeys == [ticket |-> {"u1", "s1"}, game |-> {"u1"}]

\* The instants the clock takes in the rate-limiter specification: the start,
\* the reset time of a window opened at the start, and the instant after it.
TimePoints ==
  {0} \cup { w + d : w \in {GAME_WINDOW_MS, TICKET_WINDOW_MS}, d \in {0, 1} }

VARIABLES
  now,               \* Date.now()
  ticketRateLimits,  \* TicketHandler.rateLimits
  gameRateLimits,    \* rateLimits of gameHandler.js
  rlRef,             \* per map and key: the window as the specification counts it
  rlLast,            \* the last checkRateLimit call and what it returned
  staff,             \* members holding a role of config.STAFF_ROLES
  channels,          \* guild.channels.cache, ticket channels only
  tickets,           \* table tickets
  users,             \* table users
  analytics,         \* table analytics
  forms,             \* ticket creation forms shown and not yet submitted, per user
  closeForms,        \* close_reason_modal forms shown and not yet submitted
  ticketOps,         \* suspended ticket handlers
  chanLog,           \* per channel: replies sent and deletions scheduled
  deleteTimers,      \* pending setTimeout(channel.delete) callbacks
  ratingRequests,    \* rating DMs sent, per user
  activeGames,       \* activeGames of gameHandler.js: user -> session
  games,             \* the gameState objects ever created
  timers,            \* sessions whose timeout callback is pending
  gameOps,           \* suspended game handlers
  gameEnds,          \* per session: stats updates and game_ended events issued
  lastStart,         \* the last game-start request and its reply
  aiRandomUsed       \* some Tic-Tac-Toe AI move came from the random branch

rateVars == <<now, ticketRateLimits, gameRateLimits, rlRef, rlLast>>
storeVars == <<users, analytics>>
ticketVars == <<staff, channels, tickets, forms, closeForms, ticketOps, chanLog,
                deleteTimers, ratingRequests>>
gameVars == <<activeGames, games, timers, gameOps, gameEnds, lastStart, aiRandomUsed>>

VARIABLES
  userRatings,       \* table users: rating_average and rating_count
  ratingMetric,      \* table analytics: the row of rating_submitted
  ratingOps,         \* suspended handleRating calls
  ratingLog          \* per user: what the rating submissions did

ratingVars == <<userRatings, ratingMetric, ratingOps, ratingLog>>

VARIABLES
  lastMove,          \* the last move sent without a session to play it on
  hangmanGames,      \* Hangman.games of the standalone class: game id -> game
  lastGuess,         \* the last reply to a Number Guessing session and its answer
  rpsGames           \* the games Map of the RockPaperScissors class

VARIABLES
  today,             \* the date new Date() gives, as a day number
  analyticsTable,    \* the rows of the analytics table: date, metric, value
  analyticsLogged    \* for each (date, metric): the calls made and the sum of their values

VARIABLES
  mathQuestion,      \* the last question generateMathQuestion built
  storeFailures,     \* store calls of endGame that were rejected
  modalsShown,       \* the forms shown and not yet submitted: <<user, customId>>
  lastModal          \* the last form submitted and the handler that received it

modalVars == <<modalsShown, lastModal>>
lateVars == <<mathQuestion, storeFailures, modalVars>>
moreVars == <<today, analyticsTable, analyticsLogged, lateVars>>
playVars == <<lastMove, hangmanGames, lastGuess, rpsGames, moreVars>>
otherVars == <<ratingVars, playVars>>
vars == <<rateVars, storeVars, ticketVars, gameVars, otherVars>>

(***************************************************************************)
(* Rate limiter (utils.js).  A map is a function from keys to entries;     *)
(* Absent stands for a key the Map does not hold.                          *)
(***************************************************************************)
Absent == [count |-> -1, resetTime |-> -1]
EmptyRateMap == [k \in Users |-> Absent]

checkRateLimit_ge(rateLimitMap, key, limits, t) ==
  LET userLimits == IF rateLimitMap[key] = Absent
                    THEN [count |-> 0, resetTime |-> t + limits.WINDOW_MS]
                    ELSE rateLimitMap[key]
      updated == IF t >= userLimits.resetTime
                 THEN [count |-> 1, resetTime |-> t + limits.WINDOW_MS]
                 ELSE [userLimits EXCEPT !.count = @ + 1]
  IN [map |-> [rateLimitMap EXCEPT ![key] = updated],
      allowed |-> updated.count <= limits.MAX_REQUESTS]

\* A sliding variant: every call moves the end of the window.
checkRateLimit_sliding(rateLimitMap, key, limits, t) ==
  LET userLimits == IF rateLimitMap[key] = Absent
                    THEN [count |-> 0, resetTime |-> t + limits.WINDOW_MS]
                    ELSE rateLimitMap[key]
      updated == IF t > userLimits.resetTime
                 THEN [count |-> 1, resetTime |-> t + limits.WINDOW_MS]
                 ELSE [count |-> userLimits.count + 1, resetTime |-> t + limits.WINDOW_MS]
  IN [map |-> [rateLimitMap EXCEPT ![key] = updated],
      allowed |-> updated.count <= limits.MAX_REQUESTS]

\* Returns the updated map and the boolean the code returns.
checkRateLimit(rateLimitMap, key, limits, t) ==
  LET userLimits == IF rateLimitMap[key] = Absent
                    THEN [count |-> 0, resetTime |-> t + limits.WINDOW_MS]
                    ELSE rateLimitMap[key]
      updated == IF t > userLimits.resetTime
                 THEN [count |-> 1, resetTime |-> t + limits.WINDOW_MS]
                 ELSE [userLimits EXCEPT !.count = @ + 1]
  IN [map |-> [rateLimitMap EXCEPT ![key] = updated],
      allowed |-> updated.count <= limits.MAX_REQUESTS]

\* A sweep that also evicts the window that ends at this instant.
cleanupRateLimits_ge(rateLimitMap, t) ==
  [k \in DOMAIN rateLimitMap |->
     IF rateLimitMap[k] # Absent /\ t >= rateLimitMap[k].resetTime
     THEN Absent
     ELSE rateLimitMap[k]]

cleanupRateLimits(rateLimitMap, t) ==
  [k \in DOMAIN rateLimitMap |->
     IF rateLimitMap[k] # Absent /\ t > rateLimitMap[k].resetTime
     THEN Absent
     ELSE rateLimitMap[k]]

RateMaps == {"ticket", "game"}
LimitsOf(m) == IF m = "ticket" THEN TICKET_RATE_LIMIT ELSE GAME_RATE_LIMIT
MapOf(m) == IF m = "ticket" THEN ticketRateLimits ELSE gameRateLimits

NoWindow == [idx |-> 0, reset |-> -1]
NoCall == [map |-> "none", key |-> NoUser, at |-> 0, allowed |-> FALSE,
           count |-> 0, resetTime |-> 0, idx |-> 0, reset |-> 0, max |-> 0]

\* The window as the specification counts it: a call made after the reset
\* time of the current window (or with no window yet) opens a new one.
RefAfterCall(ref, limits, t) ==
  IF ref = NoWindow \/ t > ref.reset
  THEN [idx |-> 1, reset |-> t + limits.WINDOW_MS]
  ELSE [ref EXCEPT !.idx = @ + 1]

RateInitVars ==
  /\ now = 0
  /\ ticketRateLimits = EmptyRateMap
  /\ gameRateLimits = EmptyRateMap
  /\ rlRef = [m \in RateMaps |-> [k \in Users |-> NoWindow]]
  /\ rlLast = NoCall

\* One call checkRateLimit(map, key, limits), as the handlers make it.
RateCall(m, k) ==
  /\ \/ MapOf(m)[k] = Absent
     \/ now > MapOf(m)[k].resetTime
     \/ MapOf(m)[k].count < LimitsOf(m).MAX_REQUESTS + MaxDenied
  /\ LET r == checkRateLimit(MapOf(m), k, LimitsOf(m), now)
         ref == RefAfterCall(rlRef[m][k], LimitsOf(m), now)
     IN /\ IF m = "ticket"
           THEN ticketRateLimits' = r.map /\ UNCHANGED gameRateLimits
           ELSE gameRateLimits' = r.map /\ UNCHANGED ticketRateLimits
        /\ rlRef' = [rlRef EXCEPT ![m][k] = ref]
        /\ rlLast' = [map |-> m, key |-> k, at |-> now,
                      allowed |-> r.allowed,
                      count |-> r.map[k].count, resetTime |-> r.map[k].resetTime,
                      idx |-> ref.idx, reset |-> ref.reset,
                      max |-> LimitsOf(m).MAX_REQUESTS]
  /\ UNCHANGED <<otherVars, now, storeVars, ticketVars, gameVars>>

\* Time passes.
Tick(t) ==
  /\ t > now
  /\ now' = t
  /\ UNCHANGED <<otherVars, ticketRateLimits, gameRateLimits, rlRef, rlLast,
                 storeVars, ticketVars, gameVars>>

\* The hourly sweep of index.js: GameHandler.cleanupRateLimits.
Sweep ==
  /\ gameRateLimits' = cleanupRateLimits(gameRateLimits, now)
  /\ UNCHANGED <<otherVars, now, ticketRateLimits, rlRef, rlLast, storeVars, ticketVars, gameVars>>

(***************************************************************************)
(* Store (models/ticket.js, models/user.js, models/analytics.js) and       *)
(* guild state.                                                            *)
(***************************************************************************)
NoRow == [exists |-> FALSE, ticketsCreated |-> 0, ticketsClosed |-> 0, gamesPlayed |-> 0]
Metrics == {"ticket_created", "ticket_claimed", "ticket_closed",
            "game_started", "game_ended", "rating_submitted"}

\* INSERT ... ON CONFLICT(date, metric) DO UPDATE SET value = value + ?
logAnalytics(table, metric, value) == [table EXCEPT ![metric] = @ + value]

hasStaffPermissions(member) == member \in staff

\* SELECT * FROM tickets WHERE channel_id = ?  (0: no row)
findByChannelId(channelId) ==
  IF \E t \in 1 .. Len(tickets) : tickets[t].channelId = channelId
  THEN CHOOSE t \in 1 .. Len(tickets) :
         /\ tickets[t].channelId = channelId
         /\ \A s \in 1 .. (t - 1) : tickets[s].channelId # channelId
  ELSE 0

\* channels.find(pred): the first channel of the cache that satisfies pred (0: none).
FirstChannel(chans, Pred(_)) ==
  IF \E c \in 1 .. Len(chans) : chans[c].exists /\ Pred(chans[c])
  THEN CHOOSE c \in 1 .. Len(chans) :
         /\ chans[c].exists /\ Pred(chans[c])
         /\ \A b \in 1 .. (c - 1) : ~(chans[b].exists /\ Pred(chans[b]))
  ELSE 0

\* A channel created by createTicket is named ticket-<user id>-<6 random
\* characters> and never ends with a user id, so the name fallback of
\* findExistingTicketByUser matches none of them.
NameMatches(channel, userId) == FALSE

findExistingTicketByUser_byName(userId, chans) ==
  FirstChannel(chans, LAMBDA c : NameMatches(c, userId))

findExistingTicketByUser(userId, chans) ==
  LET byTopic(c) == c.topicUser = userId
      byPermissions(c) == userId \in c.viewers
      byName(c) == NameMatches(c, userId)
  IN IF FirstChannel(chans, byTopic) # 0 THEN FirstChannel(chans, byTopic)
     ELSE IF FirstChannel(chans, byPermissions) # 0 THEN FirstChannel(chans, byPermissions)
     ELSE FirstChannel(chans, byName)

(***************************************************************************)
(* Suspended handlers.  ticketOps and gameOps are arrays of slots; a       *)
(* handler that reaches an await takes the first idle slot.                *)
(***************************************************************************)
IdleOp == [kind |-> "idle", pc |-> "none", user |-> NoUser, ch |-> 0, ticket |-> 0,
           reason |-> "none", staffAtEvent |-> FALSE]

HasFree(ops) == \E i \in DOMAIN ops : ops[i].kind = "idle"
FreeSlot(ops) == CHOOSE i \in DOMAIN ops :
                   ops[i].kind = "idle" /\ \A j \in DOMAIN ops : j < i => ops[j].kind # "idle"

NoLog == [claimTries |-> 0, claimOk |-> 0, claimStale |-> 0, claimLost |-> 0, claimBy |-> NoUser,
          closeTries |-> 0, closeOk |-> 0, closeFailed |-> 0, closeBy |-> NoUser,
          closeReason |-> "none", deletions |-> 0, nonStaffMutation |-> FALSE,
          claimEnd |-> "none"]

\* A count of the log summed over the channels.
Total(count(_)) ==
  LET RECURSIVE Sum(_)
      Sum(n) == IF n = 0 THEN 0 ELSE count(chanLog[n]) + Sum(n - 1)
  IN Sum(Len(chanLog))

TicketInitVars ==
  /\ staff = InitialStaff
  /\ channels = << >>
  /\ tickets = << >>
  /\ forms = [u \in Users |-> 0]
  /\ closeForms = {}
  /\ ticketOps = [i \in 1 .. MaxTicketOps |-> IdleOp]
  /\ chanLog = << >>
  /\ deleteTimers = << >>
  /\ ratingRequests = [u \in Users |-> 0]

StoreInitVars ==
  /\ users = [u \in Users |-> NoRow]
  /\ analytics = [m \in Metrics |-> 0]

(***************************************************************************)
(* Ticket creation (TicketHandler.handleTicketTypeSelect, handleTicketModal,*)
(* createTicket; Ticket.create).                                           *)
(***************************************************************************)
\* The ticket_type menu.  Runs to completion: it awaits nothing before it
\* replies or shows the form.
HandleTicketTypeSelect(u) ==
  /\ forms[u] < MaxForms
  /\ ticketRateLimits[u] = Absent \/ ticketRateLimits[u].count < MaxSelects
  /\ LET r == checkRateLimit(ticketRateLimits, u, TICKET_RATE_LIMIT, now)
     IN /\ ticketRateLimits' = r.map
        /\ IF r.allowed /\ findExistingTicketByUser(u, channels) = 0
           THEN forms' = [forms EXCEPT ![u] = @ + 1]
           ELSE UNCHANGED forms
  /\ UNCHANGED <<otherVars, now, gameRateLimits, rlRef, rlLast, storeVars, gameVars,
                 staff, channels, tickets, closeForms, ticketOps, chanLog,
                 deleteTimers, ratingRequests>>

CreatesPending == Cardinality({i \in DOMAIN ticketOps :
                                 ticketOps[i].kind = "create" /\ ticketOps[i].pc = "chan"})

\* Submission of a creation form: handleTicketModal up to guild.channels.create.
handleTicketModal(u) ==
  /\ forms[u] > 0
  /\ HasFree(ticketOps)
  /\ Len(channels) + CreatesPending < MaxChannels
  /\ forms' = [forms EXCEPT ![u] = @ - 1]
  /\ ticketOps' = [ticketOps EXCEPT ![FreeSlot(ticketOps)] =
                     [IdleOp EXCEPT !.kind = "create", !.pc = "chan", !.user = u,
                                    !.staffAtEvent = hasStaffPermissions(u)]]
  /\ UNCHANGED <<ratingVars, lastMove, hangmanGames, lastGuess, rpsGames, today, analyticsTable,
                 analyticsLogged, mathQuestion, storeFailures, rateVars, storeVars, gameVars, staff,
                 channels, tickets, closeForms, chanLog, deleteTimers, ratingRequests>>

\* The handler called with a submitted creation form.
HandleTicketModal(u) == handleTicketModal(u) /\ UNCHANGED modalVars

NewChannel(u) == [exists |-> TRUE, topicUser |-> u, everyoneView |-> "deny",
                  viewers |-> {u}, panel |-> FALSE]

\* guild.channels.create resolved; Ticket.create issues its INSERT.
CreateChannelDone(i) ==
  /\ ticketOps[i].kind = "create" /\ ticketOps[i].pc = "chan"
  /\ channels' = Append(channels, NewChannel(ticketOps[i].user))
  /\ chanLog' = Append(chanLog, NoLog)
  /\ deleteTimers' = Append(deleteTimers, 0)
  /\ ticketOps' = [ticketOps EXCEPT ![i].pc = "insert", ![i].ch = Len(channels) + 1]
  /\ UNCHANGED <<otherVars, rateVars, storeVars, gameVars, staff, tickets, forms, closeForms,
                 ratingRequests>>

NewTicket(ch, u) == [channelId |-> ch, userId |-> u, status |-> "open",
                     claimedBy |-> NoUser, closedBy |-> NoUser, closeReason |-> "none"]

\* INSERT INTO tickets done; the users upsert is issued.
CreateInsertDone(i) ==
  /\ ticketOps[i].kind = "create" /\ ticketOps[i].pc = "insert"
  /\ tickets' = Append(tickets, NewTicket(ticketOps[i].ch, ticketOps[i].user))
  /\ ticketOps' = [ticketOps EXCEPT ![i].pc = "usercount", ![i].ticket = Len(tickets) + 1]
  /\ UNCHANGED <<otherVars, rateVars, storeVars, gameVars, staff, channels, forms, closeForms,
                 chanLog, deleteTimers, ratingRequests>>

\* INSERT INTO users ... ON CONFLICT DO UPDATE SET tickets_created = tickets_created + 1
CreateUserCountDone(i) ==
  /\ ticketOps[i].kind = "create" /\ ticketOps[i].pc = "usercount"
  /\ users' = [users EXCEPT ![ticketOps[i].user] =
                 IF @.exists THEN [@ EXCEPT !.ticketsCreated = @ + 1]
                 ELSE [NoRow EXCEPT !.exists = TRUE, !.ticketsCreated = 1]]
  /\ ticketOps' = [ticketOps EXCEPT ![i].pc = "analytics"]
  /\ UNCHANGED <<otherVars, rateVars, analytics, gameVars, staff, channels, tickets, forms,
                 closeForms, chanLog, deleteTimers, ratingRequests>>

\* logAnalytics('ticket_created') done; the panel with the buttons is sent.
CreateAnalyticsDone(i) ==
  /\ ticketOps[i].kind = "create" /\ ticketOps[i].pc = "analytics"
  /\ analytics' = logAnalytics(analytics, "ticket_created", 1)
  /\ ticketOps' = [ticketOps EXCEPT ![i].pc = "panel"]
  /\ UNCHANGED <<otherVars, rateVars, users, gameVars, staff, channels, tickets, forms,
                 closeForms, chanLog, deleteTimers, ratingRequests>>

\* ticketChannel.send of the panel resolved; the remaining sends touch no state.
CreatePanelDone(i) ==
  /\ ticketOps[i].kind = "create" /\ ticketOps[i].pc = "panel"
  /\ channels' = [channels EXCEPT ![ticketOps[i].ch].panel = TRUE]
  /\ ticketOps' = [ticketOps EXCEPT ![i] = IdleOp]
  /\ UNCHANGED <<otherVars, rateVars, storeVars, gameVars, staff, tickets, forms, closeForms,
                 chanLog, deleteTimers, ratingRequests>>

\* A button of the panel of channel ch can be pressed.
PanelUp(ch) == ch \in 1 .. Len(channels) /\ channels[ch].exists /\ channels[ch].panel


(***************************************************************************)
(* Claim (TicketHandler.handleClaimTicket, Ticket.claim).  A press may     *)
(* come from any member who sees the panel; the handler decides.           *)
(***************************************************************************)
Finish(i) == [ticketOps EXCEPT ![i] = IdleOp]

\* Entry of handleClaimTicket up to its first await, Ticket.findByChannelId.
HandleClaimTicket(s, ch) ==
  /\ PanelUp(ch)
  /\ IF ~hasStaffPermissions(s)
     THEN UNCHANGED <<ticketOps, chanLog>>
     ELSE /\ HasFree(ticketOps)
          /\ Total(LAMBDA l : l.claimTries) < MaxClaimAttempts
          /\ ticketOps' = [ticketOps EXCEPT ![FreeSlot(ticketOps)] =
                             [IdleOp EXCEPT !.kind = "claim", !.pc = "find", !.user = s,
                                            !.ch = ch, !.staffAtEvent = TRUE]]
          /\ chanLog' = [chanLog EXCEPT ![ch].claimTries = @ + 1]
  /\ UNCHANGED <<otherVars, rateVars, storeVars, gameVars, staff, channels, tickets, forms,
                 closeForms, deleteTimers, ratingRequests>>

\* findByChannelId resolved: the null and status checks, then the UPDATE is issued.
ClaimFindDone(i) ==
  /\ ticketOps[i].kind = "claim" /\ ticketOps[i].pc = "find"
  /\ LET t == findByChannelId(ticketOps[i].ch)
     IN IF t = 0 \/ tickets[t].status # "open"
        THEN /\ ticketOps' = Finish(i)
             /\ chanLog' = [chanLog EXCEPT ![ticketOps[i].ch].claimStale = @ + 1]
        ELSE /\ ticketOps' = [ticketOps EXCEPT ![i].pc = "update", ![i].ticket = t]
             /\ UNCHANGED chanLog
  /\ UNCHANGED <<otherVars, rateVars, storeVars, gameVars, staff, channels, tickets, forms,
                 closeForms, deleteTimers, ratingRequests>>

\* UPDATE tickets SET claimed_by, status = 'claimed' WHERE ticket_id = ? AND status = 'open'
ClaimUpdate_unguarded(rows, t, staffId) ==
  [changes |-> 1,
   rows |-> [rows EXCEPT ![t].status = "claimed", ![t].claimedBy = staffId]]

ClaimUpdate(rows, t, staffId) ==
  IF rows[t].status = "open"
  THEN [changes |-> 1,
        rows |-> [rows EXCEPT ![t].status = "claimed", ![t].claimedBy = staffId]]
  ELSE [changes |-> 0, rows |-> rows]

\* The UPDATE of Ticket.claim ran.  With no row changed claim returns false
\* and the handler replies "Failed to claim ticket".
ClaimUpdateDone(i) ==
  /\ ticketOps[i].kind = "claim" /\ ticketOps[i].pc = "update"
  /\ LET r == ClaimUpdate(tickets, ticketOps[i].ticket, ticketOps[i].user)
     IN /\ tickets' = r.rows
        /\ IF r.changes > 0
           THEN /\ ticketOps' = [ticketOps EXCEPT ![i].pc = "analytics"]
                /\ chanLog' = [chanLog EXCEPT ![ticketOps[i].ch].nonStaffMutation =
                                 @ \/ ~ticketOps[i].staffAtEvent]
           ELSE /\ ticketOps' = Finish(i)
                /\ chanLog' = [chanLog EXCEPT ![ticketOps[i].ch].claimLost = @ + 1]
  /\ UNCHANGED <<otherVars, rateVars, storeVars, gameVars, staff, channels, forms,
                 closeForms, deleteTimers, ratingRequests>>

\* logAnalytics('ticket_claimed') done; claim returns true and the handler
\* announces the claim (its remaining awaits are sends that touch no state)
\* and comes to the auto-assign block, which ends it with claimEnd.
claimTail(i, claimEnd) ==
  /\ ticketOps[i].kind = "claim" /\ ticketOps[i].pc = "analytics"
  /\ analytics' = logAnalytics(analytics, "ticket_claimed", 1)
  /\ chanLog' = [chanLog EXCEPT ![ticketOps[i].ch].claimOk = @ + 1,
                                ![ticketOps[i].ch].claimBy = ticketOps[i].user,
                                ![ticketOps[i].ch].claimEnd = claimEnd]
  /\ ticketOps' = Finish(i)
  /\ UNCHANGED <<otherVars, rateVars, users, gameVars, staff, channels, tickets, forms,
                 closeForms, deleteTimers, ratingRequests>>

\* What autoAssignStaff can meet: no staff member found, an error in the
\* scan of the staff roles, an error fetching the member, an error sending
\* the notification, or the notification sent.
AssignOutcomes == {"no_staff", "scan_threw", "fetch_threw", "dm_threw", "notified"}

\* try { if (config.AUTO_ASSIGN_TICKETS) await this.autoAssignStaff(guild) }
\* catch (e) { log }: every outcome leaves the handler to return normally.
afterAutoAssign(outcome) == "completed"

\* With AUTO_ASSIGN_TICKETS false, as configured, the block does nothing.
ClaimAnalyticsDone(i) == claimTail(i, "completed")

\* With AUTO_ASSIGN_TICKETS true.
ClaimAutoAssignDone(i, outcome) == claimTail(i, afterAutoAssign(outcome))

(***************************************************************************)
(* Close (TicketHandler.handleCloseTicket, handleCloseReasonModal,         *)
(* closeTicketWithReason; Ticket.close).                                   *)
(***************************************************************************)
\* The close_ticket button: staff get the reason form.
HandleCloseTicket(s, ch) ==
  /\ PanelUp(ch)
  /\ IF hasStaffPermissions(s)
     THEN closeForms' = closeForms \cup {<<s, ch>>}
     ELSE UNCHANGED closeForms
  /\ UNCHANGED <<otherVars, rateVars, storeVars, gameVars, staff, channels, tickets, forms,
                 ticketOps, chanLog, deleteTimers, ratingRequests>>

\* Submission of close_reason_modal: handleCloseReasonModal and
\* closeTicketWithReason up to Ticket.findByChannelId.
HandleCloseReasonModal(s, ch, reason) ==
  /\ <<s, ch>> \in closeForms
  /\ channels[ch].exists
  /\ HasFree(ticketOps)
  /\ Total(LAMBDA l : l.closeTries) < MaxCloseAttempts
  /\ closeForms' = closeForms \ {<<s, ch>>}
  /\ ticketOps' = [ticketOps EXCEPT ![FreeSlot(ticketOps)] =
                     [IdleOp EXCEPT !.kind = "close", !.pc = "find", !.user = s, !.ch = ch,
                                    !.reason = reason,
                                    !.staffAtEvent = hasStaffPermissions(s)]]
  /\ chanLog' = [chanLog EXCEPT ![ch].closeTries = @ + 1]
  /\ UNCHANGED <<otherVars, rateVars, storeVars, gameVars, staff, channels, tickets, forms,
                 deleteTimers, ratingRequests>>

\* findByChannelId resolved; the owner is fetched from the channel topic.
CloseFindDone(i) ==
  /\ ticketOps[i].kind = "close" /\ ticketOps[i].pc = "find"
  /\ LET t == findByChannelId(ticketOps[i].ch)
     IN IF t = 0
        THEN /\ ticketOps' = Finish(i)
             /\ chanLog' = [chanLog EXCEPT ![ticketOps[i].ch].closeFailed = @ + 1]
        ELSE /\ ticketOps' = [ticketOps EXCEPT ![i].pc = "dm", ![i].ticket = t]
             /\ UNCHANGED chanLog
  /\ UNCHANGED <<otherVars, rateVars, storeVars, gameVars, staff, channels, tickets, forms,
                 closeForms, deleteTimers, ratingRequests>>

\* sendRatingRequest: the owner is asked for a rating before the ticket is closed.
CloseDmDone(i) ==
  /\ ticketOps[i].kind = "close" /\ ticketOps[i].pc = "dm"
  /\ ratingRequests' = [ratingRequests EXCEPT ![channels[ticketOps[i].ch].topicUser] = @ + 1]
  /\ ticketOps' = [ticketOps EXCEPT ![i].pc = "update"]
  /\ UNCHANGED <<otherVars, rateVars, storeVars, gameVars, staff, channels, tickets, forms,
                 closeForms, chanLog, deleteTimers>>


\* UPDATE tickets SET closed_by, close_reason, status = 'closed'
\*   WHERE ticket_id = ? AND status IN ('open', 'claimed')
CloseUpdate_unguarded(rows, t, staffId, reason) ==
  [changes |-> 1,
   rows |-> [rows EXCEPT ![t].status = "closed", ![t].closedBy = staffId,
                         ![t].closeReason = reason]]

CloseUpdate(rows, t, staffId, reason) ==
  IF rows[t].status \in {"open", "claimed"}
  THEN [changes |-> 1,
        rows |-> [rows EXCEPT ![t].status = "closed", ![t].closedBy = staffId,
                              ![t].closeReason = reason]]
  ELSE [changes |-> 0, rows |-> rows]

\* The UPDATE of Ticket.close ran.  With no row changed close returns false
\* and the handler replies "Failed to close ticket."
CloseUpdateDone(i) ==
  /\ ticketOps[i].kind = "close" /\ ticketOps[i].pc = "update"
  /\ LET r == CloseUpdate(tickets, ticketOps[i].ticket, ticketOps[i].user, ticketOps[i].reason)
     IN /\ tickets' = r.rows
        /\ IF r.changes > 0
           THEN /\ ticketOps' = [ticketOps EXCEPT ![i].pc = "count"]
                /\ chanLog' = [chanLog EXCEPT ![ticketOps[i].ch].nonStaffMutation =
                                 @ \/ ~ticketOps[i].staffAtEvent]
           ELSE /\ ticketOps' = Finish(i)
                /\ chanLog' = [chanLog EXCEPT ![ticketOps[i].ch].closeFailed = @ + 1]
  /\ UNCHANGED <<otherVars, rateVars, storeVars, gameVars, staff, channels, forms,
                 closeForms, deleteTimers, ratingRequests>>

\* findById, then UPDATE users SET tickets_closed = tickets_closed + 1 WHERE user_id = ?
CloseCountDone(i) ==
  /\ ticketOps[i].kind = "close" /\ ticketOps[i].pc = "count"
  /\ users' = [users EXCEPT ![tickets[ticketOps[i].ticket].userId] =
                 IF @.exists THEN [@ EXCEPT !.ticketsClosed = @ + 1] ELSE @]
  /\ ticketOps' = [ticketOps EXCEPT ![i].pc = "analytics"]
  /\ UNCHANGED <<otherVars, rateVars, analytics, gameVars, staff, channels, tickets, forms,
                 closeForms, chanLog, deleteTimers, ratingRequests>>

\* logAnalytics('ticket_closed') done; close returns true.
CloseAnalyticsDone(i) ==
  /\ ticketOps[i].kind = "close" /\ ticketOps[i].pc = "analytics"
  /\ analytics' = logAnalytics(analytics, "ticket_closed", 1)
  /\ ticketOps' = [ticketOps EXCEPT ![i].pc = "reply"]
  /\ UNCHANGED <<otherVars, rateVars, users, gameVars, staff, channels, tickets, forms,
                 closeForms, chanLog, deleteTimers, ratingRequests>>

\* The closing message and the close log are sent; the deletion timer is set.
CloseReplyDone(i) ==
  /\ ticketOps[i].kind = "close" /\ ticketOps[i].pc = "reply"
  /\ chanLog' = [chanLog EXCEPT ![ticketOps[i].ch].closeOk = @ + 1,
                                ![ticketOps[i].ch].closeBy = ticketOps[i].user,
                                ![ticketOps[i].ch].closeReason = ticketOps[i].reason,
                                ![ticketOps[i].ch].deletions = @ + 1]
  /\ deleteTimers' = [deleteTimers EXCEPT ![ticketOps[i].ch] = @ + 1]
  /\ ticketOps' = Finish(i)
  /\ UNCHANGED <<otherVars, rateVars, storeVars, gameVars, staff, channels, tickets, forms,
                 closeForms, ratingRequests>>

\* The timer set by closeTicketWithReason fires: channel.delete().
DeleteChannel(ch) ==
  /\ ch \in 1 .. Len(deleteTimers)
  /\ deleteTimers[ch] > 0
  /\ deleteTimers' = [deleteTimers EXCEPT ![ch] = @ - 1]
  /\ channels' = [channels EXCEPT ![ch].exists = FALSE]
  /\ UNCHANGED <<otherVars, rateVars, storeVars, gameVars, staff, tickets, forms, closeForms,
                 ticketOps, chanLog, ratingRequests>>

(***************************************************************************)
(* Lock and unlock (TicketHandler.handleLockTicket, handleUnlockTicket).   *)
(***************************************************************************)
HandleLockTicket(s, ch) ==
  /\ PanelUp(ch)
  /\ IF ~hasStaffPermissions(s)
     THEN UNCHANGED ticketOps
     ELSE /\ HasFree(ticketOps)
          /\ ticketOps' = [ticketOps EXCEPT ![FreeSlot(ticketOps)] =
                             [IdleOp EXCEPT !.kind = "lock", !.pc = "everyone", !.user = s,
                                            !.ch = ch, !.staffAtEvent = TRUE]]
  /\ UNCHANGED <<otherVars, rateVars, storeVars, gameVars, staff, channels, tickets, forms,
                 closeForms, chanLog, deleteTimers, ratingRequests>>

LockEveryoneDone_closing(i) ==
  /\ ticketOps[i].kind = "lock" /\ ticketOps[i].pc = "everyone"
  /\ channels' = [channels EXCEPT ![ticketOps[i].ch].everyoneView = "deny"]
  /\ tickets' = [tickets EXCEPT ![ticketOps[i].ch].status = "closed"]
  /\ chanLog' = [chanLog EXCEPT ![ticketOps[i].ch].nonStaffMutation =
                   @ \/ ~ticketOps[i].staffAtEvent]
  /\ ticketOps' = [ticketOps EXCEPT ![i].pc = "actor"]
  /\ UNCHANGED <<otherVars, rateVars, storeVars, gameVars, staff, forms, closeForms,
                 deleteTimers, ratingRequests>>

\* permissionOverwrites.edit(guild.id, { ViewChannel: false })
LockEveryoneDone(i) ==
  /\ ticketOps[i].kind = "lock" /\ ticketOps[i].pc = "everyone"
  /\ channels' = [channels EXCEPT ![ticketOps[i].ch].everyoneView = "deny"]
  /\ chanLog' = [chanLog EXCEPT ![ticketOps[i].ch].nonStaffMutation =
                   @ \/ ~ticketOps[i].staffAtEvent]
  /\ ticketOps' = [ticketOps EXCEPT ![i].pc = "actor"]
  /\ UNCHANGED <<otherVars, rateVars, storeVars, gameVars, staff, tickets, forms, closeForms,
                 deleteTimers, ratingRequests>>

\* permissionOverwrites.edit(interaction.user.id, { ViewChannel: true })
LockActorDone(i) ==
  /\ ticketOps[i].kind = "lock" /\ ticketOps[i].pc = "actor"
  /\ channels' = [channels EXCEPT ![ticketOps[i].ch].viewers = @ \cup {ticketOps[i].user}]
  /\ ticketOps' = Finish(i)
  /\ UNCHANGED <<otherVars, rateVars, storeVars, gameVars, staff, tickets, forms, closeForms,
                 chanLog, deleteTimers, ratingRequests>>

HandleUnlockTicket(s, ch) ==
  /\ PanelUp(ch)
  /\ IF ~hasStaffPermissions(s)
     THEN UNCHANGED ticketOps
     ELSE /\ HasFree(ticketOps)
          /\ ticketOps' = [ticketOps EXCEPT ![FreeSlot(ticketOps)] =
                             [IdleOp EXCEPT !.kind = "unlock", !.pc = "everyone", !.user = s,
                                            !.ch = ch, !.staffAtEvent = TRUE]]
  /\ UNCHANGED <<otherVars, rateVars, storeVars, gameVars, staff, channels, tickets, forms,
                 closeForms, chanLog, deleteTimers, ratingRequests>>

\* permissionOverwrites.edit(guild.id, { ViewChannel: null })
UnlockEveryoneDone(i) ==
  /\ ticketOps[i].kind = "unlock" /\ ticketOps[i].pc = "everyone"
  /\ channels' = [channels EXCEPT ![ticketOps[i].ch].everyoneView = "unset"]
  /\ chanLog' = [chanLog EXCEPT ![ticketOps[i].ch].nonStaffMutation =
                   @ \/ ~ticketOps[i].staffAtEvent]
  /\ ticketOps' = Finish(i)
  /\ UNCHANGED <<otherVars, rateVars, storeVars, gameVars, staff, tickets, forms, closeForms,
                 deleteTimers, ratingRequests>>

\* A permissionOverwrites.edit of lock or unlock throws: the catch block logs
\* the error and replies that the operation failed.
VisibilityEditFailed(i) ==
  /\ ticketOps[i].kind \in {"lock", "unlock"}
  /\ ticketOps' = Finish(i)
  /\ UNCHANGED <<otherVars, rateVars, storeVars, gameVars, staff, channels, tickets, forms,
                 closeForms, chanLog, deleteTimers, ratingRequests>>

\* An administrator of the guild takes the staff role from a member.
RevokeStaff(s) ==
  /\ s \in staff
  /\ staff' = staff \ {s}
  /\ UNCHANGED <<otherVars, rateVars, storeVars, gameVars, channels, tickets, forms, closeForms,
                 ticketOps, chanLog, deleteTimers, ratingRequests>>


(***************************************************************************)
(* Game sessions (gameHandler.js).                                         *)
(***************************************************************************)
IdleGameOp == [kind |-> "idle", pc |-> "none", g |-> 0, user |-> NoUser, result |-> "none"]
NoStart == [user |-> NoUser, reply |-> "none", had |-> 0]

GameInitVars ==
  /\ activeGames = [p \in Players |-> 0]
  /\ games = << >>
  /\ timers = {}
  /\ gameOps = [i \in 1 .. MaxGameOps |-> IdleGameOp]
  /\ gameEnds = << >>
  /\ lastStart = NoStart
  /\ aiRandomUsed = FALSE

GameTypes == {"tictactoe", "math", "guess", "rps", "trivia", "hangman"}
TimedTypes == {"math", "guess", "trivia", "hangman"}   \* the sessions started with a setTimeout
RPS_CHOICES == {"rock", "paper", "scissors"}

\* What the random draws of the start functions can produce: the answer of
\* the math question, the number to guess, the index of the right trivia option.
Secrets(gameType) ==
  CASE gameType = "math" -> {1, 12}
    [] gameType = "guess" -> {GUESS_RANGE_MIN, GUESS_RANGE_MAX}
    [] gameType = "trivia" -> {1, 2, 3}
    [] OTHER -> {0}

\* parseInt(message.content.trim()) of the messages a player sends.
MessageInputs ==
  {[nan |-> TRUE, n |-> 0]} \cup {[nan |-> FALSE, n |-> k] : k \in {0, 1, 12, GUESS_RANGE_MAX}}

\* Text is a sequence of characters.  The word startHangman draws: one of
\* its list; the letters the players type: those of the word, six others,
\* and the upper-case form of some.
HangmanWord == <<"i", "n", "t", "e", "r", "n", "e", "t">>
LowerLetters == {"i", "n", "t", "e", "r", "a", "b", "c", "d", "f", "g", "h", "u"}
CasePairs == { <<"i", "I">>, <<"a", "A">>, <<"h", "H">>, <<"u", "U">>, <<"b", "B">>,
               <<"c", "C">>, <<"d", "D">>, <<"e", "E">>, <<"f", "F">>, <<"g", "G">> }

toLowerCase(text) ==
  [k \in DOMAIN text |->
     IF \E pr \in CasePairs : pr[2] = text[k]
     THEN (CHOOSE pr \in CasePairs : pr[2] = text[k])[1]
     ELSE text[k]]

toUpperCase(text) ==
  [k \in DOMAIN text |->
     IF \E pr \in CasePairs : pr[1] = text[k]
     THEN (CHOOSE pr \in CasePairs : pr[1] = text[k])[2]
     ELSE text[k]]

\* The characters of a text.
Chars(text) == {text[k] : k \in DOMAIN text}

\* String.prototype.includes
includes_never(text, part) == FALSE

includes(text, part) ==
  \E k \in 0 .. (Len(text) - Len(part)) : \A j \in 1 .. Len(part) : text[k + j] = part[j]

\* The gameState object a start function builds.  Its id is the index of the
\* object in games: the id of the code ends with Date.now(), which differs
\* between two sessions of one user.  buttons tells whether the message of
\* the game still shows the buttons it was sent with: a handler's
\* interaction.update replaces them (Rock Paper Scissors, Trivia) or disables
\* them (a Tic-Tac-Toe board with a winner).
NewGame(gameType, u, secret) ==
  [type |-> gameType, userId |-> u, board |-> EmptyBoard, difficulty |-> "normal",
   winner |-> Null, attempts |-> 0, secret |-> secret, result |-> "none",
   buttons |-> TRUE,
   word |-> IF gameType = "hangman" THEN HangmanWord ELSE << >>,
   guessed |-> {}, wrongGuesses |-> 0,
   maxWrongGuesses |-> IF gameType = "hangman" THEN MAX_WRONG_GUESSES ELSE 0,
   display |-> IF gameType = "hangman" THEN [i \in DOMAIN HangmanWord |-> "_"] ELSE << >>]

NoEnds == [stats |-> 0, events |-> 0]

\* activeGames.has(interaction.user.id)
hasActiveGame_never(u) == FALSE

hasActiveGame(u) == activeGames[u] # 0

\* handleGameSelect up to the first await of the start function it calls:
\* rate limit, active-session check, the new gameState, activeGames.set.
HandleGameSelect(u, gameType) ==
  /\ gameRateLimits[u] = Absent \/ gameRateLimits[u].count < MaxStartReqs
  /\ LET r == checkRateLimit(gameRateLimits, u, GAME_RATE_LIMIT, now)
     IN /\ gameRateLimits' = r.map
        /\ IF ~r.allowed
           THEN /\ lastStart' = [user |-> u, reply |-> "ratelimited", had |-> activeGames[u]]
                /\ UNCHANGED <<activeGames, games, timers, gameOps, gameEnds>>
           ELSE IF hasActiveGame(u)
           THEN /\ lastStart' = [user |-> u, reply |-> "active", had |-> activeGames[u]]
                /\ UNCHANGED <<activeGames, games, timers, gameOps, gameEnds>>
           ELSE /\ Len(games) < MaxGames
                /\ HasFree(gameOps)
                /\ \E secret \in Secrets(gameType) :
                     games' = Append(games, NewGame(gameType, u, secret))
                /\ gameEnds' = Append(gameEnds, NoEnds)
                /\ activeGames' = [activeGames EXCEPT ![u] = Len(games) + 1]
                /\ timers' = IF gameType \in TimedTypes THEN timers \cup {Len(games) + 1}
                             ELSE timers
                /\ gameOps' = [gameOps EXCEPT ![FreeSlot(gameOps)] =
                                 [IdleGameOp EXCEPT !.kind = "start", !.pc = "log",
                                                    !.g = Len(games) + 1, !.user = u]]
                /\ lastStart' = [user |-> u, reply |-> "started", had |-> activeGames[u]]
  /\ UNCHANGED <<otherVars, now, ticketRateLimits, rlRef, rlLast, storeVars, ticketVars, aiRandomUsed>>

sessionOfType_anyType(u, gameType) == activeGames[u]

\* const gameState = activeGames.get(interaction.user.id);
\* if (!gameState || gameState.type !== gameType) return reply(...)
\* The session the handler goes on with (0: it replies and returns).
sessionOfType(u, gameType) ==
  IF activeGames[u] # 0 /\ games[activeGames[u]].type = gameType THEN activeGames[u] ELSE 0

\* The game_<type> buttons: customId.split('_')[1] is the type.
HandleGameButton(u, gameType) == HandleGameSelect(u, gameType)

\* The play_again_<type> buttons: customId.split('_')[2] is the type.
HandlePlayAgain(u, gameType) == HandleGameSelect(u, gameType)

\* The start function's reply was sent and Analytics.logEvent('game_started') ran.
StartLogDone(i) ==
  /\ gameOps[i].kind = "start" /\ gameOps[i].pc = "log"
  /\ analytics' = logAnalytics(analytics, "game_started", 1)
  /\ gameOps' = [gameOps EXCEPT ![i] = IdleGameOp]
  /\ UNCHANGED <<otherVars, rateVars, users, ticketVars, activeGames, games, timers, gameEnds,
                 lastStart, aiRandomUsed>>

getRPSResult(userChoice, aiChoice) ==
  LET winConditions == [rock |-> "scissors", paper |-> "rock", scissors |-> "paper"]
  IN IF userChoice = aiChoice THEN "tie"
     ELSE IF winConditions[userChoice] = aiChoice THEN "win" ELSE "lose"

\* A handler found its session and computed the result: it is suspended with
\* the gameState object it holds.
Suspend(kind, pc, g, u, result) ==
  [gameOps EXCEPT ![FreeSlot(gameOps)] =
     [kind |-> kind, pc |-> pc, g |-> g, user |-> u, result |-> result]]

\* handleRockPaperScissors up to interaction.update.  Without a session of
\* the game's type the handler only replies.
HandleRockPaperScissors(u, userChoice, aiChoice) ==
  /\ sessionOfType(u, "rps") # 0
  /\ games[activeGames[u]].buttons
  /\ HasFree(gameOps)
  /\ gameOps' = Suspend("rps", "update", activeGames[u], u, getRPSResult(userChoice, aiChoice))
  /\ UNCHANGED <<otherVars, rateVars, storeVars, ticketVars, activeGames, games, timers, gameEnds,
                 lastStart, aiRandomUsed>>

\* handleTrivia up to interaction.update.
HandleTrivia(u, answerIndex) ==
  /\ sessionOfType(u, "trivia") # 0
  /\ games[activeGames[u]].buttons
  /\ HasFree(gameOps)
  /\ gameOps' = Suspend("trivia", "update", activeGames[u], u,
                        IF answerIndex = games[activeGames[u]].secret THEN "win" ELSE "lose")
  /\ UNCHANGED <<otherVars, rateVars, storeVars, ticketVars, activeGames, games, timers, gameEnds,
                 lastStart, aiRandomUsed>>

\* interaction.update resolved: the result is stored and endGame is entered
\* (clearTimeout, then User.updateStats is issued).
GameUpdateDone(i) ==
  /\ gameOps[i].kind \in {"rps", "trivia", "hangman"} /\ gameOps[i].pc = "update"
  /\ games' = [games EXCEPT ![gameOps[i].g].result = gameOps[i].result,
                            ![gameOps[i].g].buttons = FALSE]
  /\ timers' = timers \ {gameOps[i].g}
  /\ gameOps' = [gameOps EXCEPT ![i].pc = "stats"]
  /\ UNCHANGED <<otherVars, rateVars, storeVars, ticketVars, activeGames, gameEnds, lastStart,
                 aiRandomUsed>>

guessHint_swapped(guess, number) == IF guess > number THEN "higher" ELSE "lower"

\* const hint = guess < gameState.number ? 'higher' : 'lower';
guessHint(guess, number) == IF guess < number THEN "higher" ELSE "lower"

\* handleMessage with handleMathAnswer / handleGuess, up to the first await.
\* A message that ends the game enters endGame; any other one is answered
\* with a reply and leaves at most the attempt count changed.
handleMessage(u, content) ==
  /\ activeGames[u] # 0
  /\ LET g == activeGames[u]
         gameState == games[g]
         attempts == gameState.attempts + 1
         ends(result) ==
           /\ HasFree(gameOps)
           /\ games' = [games EXCEPT ![g].attempts = attempts, ![g].result = result]
           /\ timers' = timers \ {g}
           /\ gameOps' = Suspend(gameState.type, "stats", g, u, result)
     IN CASE gameState.type = "math" ->
               IF content.nan THEN UNCHANGED <<games, timers, gameOps>>
               ELSE IF content.n = gameState.secret THEN ends("win")
               ELSE \* maxAttempts is 1
                    ends("lose")
          [] gameState.type = "guess" ->
               IF content.nan \/ content.n < GUESS_RANGE_MIN \/ content.n > GUESS_RANGE_MAX
               THEN UNCHANGED <<games, timers, gameOps>>
               ELSE IF content.n = gameState.secret THEN ends("win")
               ELSE IF GUESS_MAX_ATTEMPTS - attempts <= 0 THEN ends("lose")
               ELSE /\ games' = [games EXCEPT ![g].attempts = attempts]
                    /\ UNCHANGED <<timers, gameOps>>
          [] OTHER -> UNCHANGED <<games, timers, gameOps>>
  /\ UNCHANGED <<ratingVars, hangmanGames, rpsGames, moreVars, rateVars, storeVars, ticketVars, activeGames, gameEnds, lastStart,
                 aiRandomUsed>>

HandleMessage(u, content) == handleMessage(u, content) /\ UNCHANGED <<lastMove, lastGuess>>

\* What handleGuess answers: the invalid-number reply, the win or lose
\* screen of endGame, or the hint with the attempts left.
guessReply(gameState, content) ==
  IF content.nan \/ content.n < GUESS_RANGE_MIN \/ content.n > GUESS_RANGE_MAX THEN "invalid"
  ELSE IF content.n = gameState.secret THEN "win"
  ELSE IF GUESS_MAX_ATTEMPTS - (gameState.attempts + 1) <= 0 THEN "lose"
  ELSE guessHint(content.n, gameState.secret)

\* handleMessage on a Number Guessing session, with the answer handleGuess
\* gives noted in lastGuess.
HandleGuess(u, content) ==
  /\ activeGames[u] # 0
  /\ IF activeGames[u] # 0 THEN games[activeGames[u]].type = "guess" ELSE FALSE
  /\ handleMessage(u, content)
  /\ lastGuess' = [g |-> activeGames[u], guess |-> content,
                   reply |-> guessReply(games[activeGames[u]], content)]
  /\ UNCHANGED lastMove

Bots == {"bot1"}

ignoresMessage_botsOnly(author, guild) == author \in Bots

\* if (message.author.bot) return;  (the messageCreate listener)
\* if (message.author.bot || !message.guild) return;  (handleMessage)
ignoresMessage(author, guild) == author \in Bots \/ ~guild

\* The messageCreate listener with handleMessage, for a message of any
\* author, in a guild channel or direct: ignored, or handled as the answer
\* to the author's Math Challenge or Number Guessing session.  lastMove notes
\* the message and the session its author had.
MessageCreate(author, guild, content) ==
  LET had == IF author \in Players THEN activeGames[author] ELSE 0
      handled == /\ ~ignoresMessage(author, guild)
                 /\ had # 0
                 /\ IF had # 0 THEN games[had].type \in {"math", "guess"} ELSE FALSE
  IN /\ lastMove' = [user |-> author, kind |-> IF guild THEN "message" ELSE "dm", had |-> had,
                     flip |-> IF "flip" \in DOMAIN lastMove THEN ~lastMove.flip ELSE FALSE]
     /\ IF handled
        THEN handleMessage(author, content) /\ UNCHANGED lastGuess
        ELSE UNCHANGED <<rateVars, storeVars, ticketVars, gameVars, ratingVars, hangmanGames,
                         lastGuess, rpsGames, moreVars>>

\* The timeout callback of session g runs: endGameByTimeout(gameId) looks for
\* an entry of activeGames with that id and enters endGame with it.
TimerFire(g) ==
  /\ g \in timers
  /\ timers' = timers \ {g}
  /\ IF \E u \in Players : activeGames[u] = g
     THEN /\ HasFree(gameOps)
          /\ gameOps' = Suspend("timeout", "stats", g,
                                CHOOSE u \in Players : activeGames[u] = g, "timeout")
     ELSE UNCHANGED gameOps
  /\ UNCHANGED <<otherVars, rateVars, storeVars, ticketVars, activeGames, games, gameEnds,
                 lastStart, aiRandomUsed>>

\* endGame: User.updateStats(userId, { gamesPlayed: 1 }) ran, an UPDATE of the
\* user's row; Analytics.logEvent is issued.
EndGameStatsDone(i) ==
  /\ gameOps[i].pc = "stats"
  /\ users' = [users EXCEPT ![games[gameOps[i].g].userId] =
                 IF @.exists THEN [@ EXCEPT !.gamesPlayed = @ + 1] ELSE @]
  /\ gameEnds' = [gameEnds EXCEPT ![gameOps[i].g].stats = @ + 1]
  /\ gameOps' = [gameOps EXCEPT ![i].pc = "log"]
  /\ UNCHANGED <<otherVars, rateVars, analytics, ticketVars, activeGames, games, timers,
                 lastStart, aiRandomUsed>>

\* endGame: Analytics.logEvent('game_ended') ran and endGame returns to its
\* caller.  The button handlers and the timeout callback delete the user's
\* entry at once, the message handlers send their reply first, and
\* handleTicTacToeMove only redraws the board.
EndGameLogDone(i) ==
  /\ gameOps[i].pc = "log" /\ gameOps[i].kind # "start"
  /\ analytics' = logAnalytics(analytics, "game_ended", 1)
  /\ gameEnds' = [gameEnds EXCEPT ![gameOps[i].g].events = @ + 1]
  /\ CASE gameOps[i].kind \in {"rps", "trivia", "hangman", "timeout"} ->
            /\ activeGames' = [activeGames EXCEPT ![gameOps[i].user] = 0]
            /\ gameOps' = [gameOps EXCEPT ![i] = IdleGameOp]
            /\ UNCHANGED games
       [] gameOps[i].kind \in {"math", "guess"} ->
            /\ gameOps' = [gameOps EXCEPT ![i].pc = "reply"]
            /\ UNCHANGED <<activeGames, games>>
       [] OTHER ->
            /\ gameOps' = [gameOps EXCEPT ![i] = IdleGameOp]
            /\ games' = [games EXCEPT ![gameOps[i].g].buttons = FALSE]
            /\ UNCHANGED activeGames
  /\ UNCHANGED <<otherVars, rateVars, users, ticketVars, timers, lastStart, aiRandomUsed>>

\* message.reply of a finished math or guessing game resolved:
\* activeGames.delete(message.author.id).
GameReplyDone(i) ==
  /\ gameOps[i].pc = "reply"
  /\ activeGames' = [activeGames EXCEPT ![gameOps[i].user] = 0]
  /\ gameOps' = [gameOps EXCEPT ![i] = IdleGameOp]
  /\ UNCHANGED <<otherVars, rateVars, storeVars, ticketVars, games, timers, gameEnds, lastStart,
                 aiRandomUsed>>

(***************************************************************************)
(* Tic-Tac-Toe moves (GameHandler.handleTicTacToeMove, getTicTacToeAIMove).*)
(***************************************************************************)
\* The moves getTicTacToeAIMove can return.  roll is Math.random() < 0.3; a
\* random move is any empty cell.
getTicTacToeAIMove(board, difficulty, roll, currentPlayer, aiPlayer) ==
  LET avail == availableMoves(board)
  IN IF difficulty = "easy" \/ (difficulty = "normal" /\ roll)
     THEN {avail[k] : k \in 1 .. Len(avail)}
     ELSE {minimax(board, aiPlayer, currentPlayer, aiPlayer).index}

\* handleTicTacToeMove up to its first await: the player's move, the AI's
\* answer and the winner check.  With a winner endGame is entered; without
\* one the board is redrawn.  The button of a taken cell is disabled, and a
\* press of it is answered with a reply.
HandleTicTacToeMove(u, moveIndex, roll) ==
  /\ sessionOfType(u, "tictactoe") # 0
  /\ games[activeGames[u]].buttons
  /\ games[activeGames[u]].board[moveIndex + 1] = Null
  /\ LET g == activeGames[u]
         gameState == games[g]
         played == Place(gameState.board, moveIndex, "X")
         first == checkTicTacToeWinner(played)
         finish(board, winner) ==
           IF winner # Null
           THEN /\ games' = [games EXCEPT ![g].board = board, ![g].winner = winner]
                /\ HasFree(gameOps)
                /\ gameOps' = Suspend("tictactoe", "stats", g, u,
                                      IF winner = "tie" THEN "tie"
                                      ELSE IF winner = "X" THEN "win" ELSE "lose")
           ELSE /\ games' = [games EXCEPT ![g].board = board]
                /\ UNCHANGED gameOps
     IN IF first # Null
        THEN /\ ~roll
             /\ finish(played, first)
             /\ UNCHANGED aiRandomUsed
        ELSE /\ \E aiMove \in getTicTacToeAIMove(played, gameState.difficulty, roll, "X", "O") :
                  finish(Place(played, aiMove, "O"),
                         checkTicTacToeWinner(Place(played, aiMove, "O")))
             /\ aiRandomUsed' = (aiRandomUsed \/ roll)
  /\ UNCHANGED <<otherVars, rateVars, storeVars, ticketVars, activeGames, timers, gameEnds, lastStart>>

(***************************************************************************)
(* Hangman of GameHandler (handleHangmanGuessModal) and of the standalone  *)
(* class Hangman (handleGuess).  guessed is kept as a set: the code only   *)
(* pushes to it, tests membership and prints it.                           *)
(***************************************************************************)
\* The letter fields submitted to hangman_guess_modal.
HangmanInputs ==
  { <<c>> : c \in {"i", "n", "t", "e", "r", "a", "b", "c", "d", "f", "g"} }
    \cup { <<"I">>, <<"1">>, <<"i", "n">>, << >> }

hangmanResult_late(display, word, wrongGuesses, maxWrongGuesses) ==
  IF display = word THEN "win"
  ELSE IF wrongGuesses > maxWrongGuesses THEN "lose"
  ELSE "none"

\* gameEnded and result of handleHangmanGuessModal ("none": not ended).
hangmanResult(display, word, wrongGuesses, maxWrongGuesses) ==
  IF display = word THEN "win"
  ELSE IF wrongGuesses >= maxWrongGuesses THEN "lose"
  ELSE "none"

\* handleHangmanGuessModal up to its first await.  An input that is not one
\* letter, a missing session and a letter guessed before are answered with a
\* reply.  With the game ended the handler goes on to interaction.update,
\* endGame and activeGames.delete; otherwise it redraws the message.
handleHangmanGuessModal(u, text) ==
  LET letter == toLowerCase(text)
      g == sessionOfType(u, "hangman")
      gameState == games[g]
      hit == includes(gameState.word, letter)
      guessed == gameState.guessed \cup {letter[1]}
      newDisplay == IF hit
                    THEN [k \in DOMAIN gameState.word |->
                            IF gameState.word[k] \in guessed THEN gameState.word[k] ELSE "_"]
                    ELSE gameState.display
      wrongGuesses == IF hit THEN gameState.wrongGuesses ELSE gameState.wrongGuesses + 1
      result == hangmanResult(newDisplay, gameState.word, wrongGuesses,
                              gameState.maxWrongGuesses)
  IN /\ Len(letter) = 1 /\ letter[1] \in LowerLetters
     /\ g # 0
     /\ letter[1] \notin gameState.guessed
     /\ games' = [games EXCEPT ![g].guessed = guessed, ![g].display = newDisplay,
                               ![g].wrongGuesses = wrongGuesses]
     /\ IF result # "none"
        THEN /\ HasFree(gameOps)
             /\ gameOps' = Suspend("hangman", "update", g, u, result)
        ELSE UNCHANGED gameOps
     /\ UNCHANGED <<ratingVars, lastMove, hangmanGames, lastGuess, rpsGames, today, analyticsTable,
                    analyticsLogged, mathQuestion, storeFailures, rateVars, storeVars, ticketVars,
                    activeGames, timers, gameEnds, lastStart, aiRandomUsed>>

\* The handler called with a submitted form, whatever brought the form there.
HandleHangmanGuessModal(u, text) == handleHangmanGuessModal(u, text) /\ UNCHANGED modalVars

\* The RockPaperScissors class.  determineWinner as written there.
determineWinner_reversed(playerChoice, botChoice) ==
  LET winConditions == [rock |-> "paper", paper |-> "scissors", scissors |-> "rock"]
  IN IF playerChoice = botChoice THEN "tie"
     ELSE IF winConditions[playerChoice] = botChoice THEN "win" ELSE "lose"

determineWinner(playerChoice, botChoice) ==
  LET winConditions == [rock |-> "scissors", paper |-> "rock", scissors |-> "paper"]
  IN IF playerChoice = botChoice THEN "tie"
     ELSE IF winConditions[playerChoice] = botChoice THEN "win" ELSE "lose"

MaxRpsGames == 3

\* RockPaperScissors.startGame: a new entry of the Map.
RPS_startGame(u) ==
  /\ Len(rpsGames) < MaxRpsGames
  /\ rpsGames' = Append(rpsGames, [present |-> TRUE, playerId |-> u, playerChoice |-> Null,
                                   botChoice |-> Null, gameOver |-> FALSE, result |-> Null])
  /\ UNCHANGED <<rateVars, storeVars, ticketVars, gameVars, ratingVars, lastMove, hangmanGames,
                 lastGuess, moreVars>>

\* RockPaperScissors.handleChoice up to its await: botChoice is what
\* getRandomChoice draws, result what the result screen shows.  A missing
\* game, another player's game and a finished game are answered with a reply.
RPS_handleChoice(u, choice, botChoice, gameId) ==
  /\ gameId \in DOMAIN rpsGames
  /\ rpsGames[gameId].present
  /\ rpsGames[gameId].playerId = u
  /\ ~rpsGames[gameId].gameOver
  /\ rpsGames' = [rpsGames EXCEPT ![gameId] =
                    [@ EXCEPT !.playerChoice = choice, !.botChoice = botChoice,
                              !.gameOver = TRUE, !.present = FALSE,
                              !.result = determineWinner(choice, botChoice)]]
  /\ UNCHANGED <<rateVars, storeVars, ticketVars, gameVars, ratingVars, lastMove, hangmanGames,
                 lastGuess, moreVars>>

\* The thirty-second timeout of RockPaperScissors.startGame.
RPS_timeout(gameId) ==
  /\ gameId \in DOMAIN rpsGames
  /\ rpsGames[gameId].present /\ ~rpsGames[gameId].gameOver
  /\ rpsGames' = [rpsGames EXCEPT ![gameId].gameOver = TRUE, ![gameId].present = FALSE]
  /\ UNCHANGED <<rateVars, storeVars, ticketVars, gameVars, ratingVars, lastMove, hangmanGames,
                 lastGuess, moreVars>>


\* The word Hangman.getRandomWord draws: one of its list.
HangmanClassWord == <<"H", "U", "B">>

\* The letters of the hangman_<letter>_<gameId> buttons that are pressed.
HangmanClassInputs ==
  { <<c>> : c \in {"h", "U", "b", "H", "A", "c", "D", "e", "F", "g"} }

\* The game object of Hangman.startGame.
NewHangmanGame(u) ==
  [present |-> TRUE, playerId |-> u, word |-> HangmanClassWord,
   displayWord |-> [k \in DOMAIN HangmanClassWord |-> "_"],
   guessedLetters |-> {}, wrongGuesses |-> 0, maxWrongGuesses |-> 6, gameOver |-> FALSE]

\* Hangman.handleGuess.  It runs to its first await without a break: the
\* game is marked over and deleted before interaction.update.  A missing
\* game, another player's game, a finished game and a letter guessed before
\* are answered with a reply.
Hangman_handleGuess(u, text, gameId) ==
  LET game == hangmanGames[gameId]
      letter == toUpperCase(text)
      hit == includes(game.word, letter)
      displayWord == IF hit
                     THEN [k \in DOMAIN game.word |->
                             IF <<game.word[k]>> = letter THEN game.word[k]
                             ELSE game.displayWord[k]]
                     ELSE game.displayWord
      wrongGuesses == IF hit THEN game.wrongGuesses ELSE game.wrongGuesses + 1
      over == IF hit THEN "_" \notin Chars(displayWord)
              ELSE wrongGuesses >= game.maxWrongGuesses
  IN /\ gameId \in DOMAIN hangmanGames
     /\ game.present
     /\ game.playerId = u
     /\ ~game.gameOver
     /\ letter \notin game.guessedLetters
     /\ hangmanGames' = [hangmanGames EXCEPT ![gameId] =
                           [game EXCEPT !.guessedLetters = @ \cup {letter},
                                        !.displayWord = displayWord,
                                        !.wrongGuesses = wrongGuesses,
                                        !.gameOver = over,
                                        !.present = ~over]]
     /\ UNCHANGED <<rateVars, storeVars, ticketVars, gameVars, ratingVars, lastMove, lastGuess, rpsGames, moreVars>>

\* The five-minute timeout of Hangman.startGame.
Hangman_timeout(gameId) ==
  /\ gameId \in DOMAIN hangmanGames
  /\ hangmanGames[gameId].present /\ ~hangmanGames[gameId].gameOver
  /\ hangmanGames' = [hangmanGames EXCEPT ![gameId].gameOver = TRUE,
                                          ![gameId].present = FALSE]
  /\ UNCHANGED <<rateVars, storeVars, ticketVars, gameVars, ratingVars, lastMove, lastGuess, rpsGames, moreVars>>

(***************************************************************************)
(* Moves without a session to play them on: the first check of             *)
(* handleTicTacToeMove, handleRockPaperScissors, handleTrivia and          *)
(* handleHangmanGuessModal, and the first two of handleMessage.            *)
(***************************************************************************)
MoveKinds == {"tictactoe", "rps", "trivia", "hangman", "message"}

\* A ttt_, rps_ or trivia_ button, a Hangman letter or a chat message of a
\* user without a session of the handler's type: the button and letter
\* handlers reply that no game is active, handleMessage returns.
MoveWithoutSession(u, kind) ==
  /\ IF kind = "message"
     THEN IF activeGames[u] = 0 THEN TRUE
          ELSE games[activeGames[u]].type \notin {"math", "guess"}
     ELSE sessionOfType(u, kind) = 0
  /\ lastMove' = [user |-> u, kind |-> kind, had |-> activeGames[u]]
  /\ UNCHANGED <<rateVars, storeVars, ticketVars, gameVars, ratingVars, hangmanGames, lastGuess, rpsGames, moreVars>>

(***************************************************************************)
(* Ratings (TicketHandler.handleRating; User.addRating).  A number is a    *)
(* record [nan, n] as for the chat messages; rating_average is kept as an  *)
(* exact fraction, or NULL once NaN was written to it.                     *)
(***************************************************************************)
MaxRatings == 3     \* rate_ button presses
MaxRatingOps == 2   \* handleRating calls suspended at an await at the same time

Raters == {"u1", "s1"}

NaN == [nan |-> TRUE, n |-> 0]
Num(n) == [nan |-> FALSE, n |-> n]

Digits == <<"0", "1", "2", "3", "4", "5", "6", "7", "8", "9">>
IsDigit(c) == \E d \in 1 .. 10 : Digits[d] = c
DigitValue(c) == (CHOOSE d \in 1 .. 10 : Digits[d] = c) - 1

RECURSIVE parseDigits(_, _)
parseDigits(chars, acc) ==
  IF chars = << >> \/ ~IsDigit(Head(chars)) THEN acc
  ELSE parseDigits(Tail(chars), acc * 10 + DigitValue(Head(chars)))

\* parseInt of a string of characters: its longest prefix of decimal digits,
\* NaN when it starts with none.
parseInt(chars) ==
  IF chars = << >> \/ ~IsDigit(Head(chars)) THEN NaN ELSE Num(parseDigits(chars, 0))

\* customId.split('_')[1] of the rate_ buttons that are pressed.
RatingSuffixes ==
  { <<"0">>, <<"1">>, <<"4">>, <<"5">>, <<"6">>, <<"x">>, <<"5", "x">>, << >> }

RECURSIVE Gcd(_, _)
Gcd(a, b) == IF b = 0 THEN a ELSE Gcd(b, a % b)

NullAverage == [null |-> TRUE, num |-> 0, den |-> 1]
Fraction(n, d) == [null |-> FALSE, num |-> n \div Gcd(n, d), den |-> d \div Gcd(n, d)]

\* rating_average REAL DEFAULT 0, rating_count INTEGER DEFAULT 0
NoRatings == [avg |-> Fraction(0, 1), count |-> 0]

\* if (rating < 1 || rating > 5): a comparison with NaN is false.
ratingOutOfRange(rating) == ~rating.nan /\ (rating.n < 1 \/ rating.n > 5)

addRating_oldCount(user, rating) ==
  LET newCount == user.count + 1
      old == IF user.avg.null THEN Fraction(0, 1) ELSE user.avg
  IN [avg |-> IF rating.nan THEN NullAverage
              ELSE Fraction(old.num * user.count + rating.n * old.den,
                            old.den * (IF user.count = 0 THEN 1 ELSE user.count)),
      count |-> newCount]

\* newCount and newAverage of User.addRating.  A NULL average read back from
\* the table multiplies to 0; a NaN average is stored as NULL.
addRating(user, rating) ==
  LET newCount == user.count + 1
      old == IF user.avg.null THEN Fraction(0, 1) ELSE user.avg
  IN [avg |-> IF rating.nan THEN NullAverage
              ELSE Fraction(old.num * user.count + rating.n * old.den, old.den * newCount),
      count |-> newCount]

\* logEvent('rating_submitted', rating): value = value + rating; NaN is bound
\* as NULL and NULL + n is NULL.
logRatingEvent(row, rating) ==
  [events |-> row.events + 1,
   null |-> row.null \/ rating.nan,
   value |-> IF row.null \/ rating.nan THEN 0 ELSE row.value + rating.n]

IdleRatingOp == [kind |-> "idle", pc |-> "none", user |-> NoUser, rating |-> NaN,
                 snap |-> NoRatings]

NoRatingLog == [presses |-> 0, rejected |-> 0, accepted |-> 0, sum |-> 0, nanWrites |-> 0,
                overlap |-> FALSE, raised |-> 0, completed |-> 0, starFailed |-> 0]

RatingInitVars ==
  /\ userRatings = [u \in Users |-> NoRatings]
  /\ ratingMetric = [events |-> 0, null |-> FALSE, value |-> 0]
  /\ ratingOps = [i \in 1 .. MaxRatingOps |-> IdleRatingOp]
  /\ ratingLog = [u \in Users |-> NoRatingLog]

NoMove == [user |-> NoUser, kind |-> "none", had |-> 0]

NoGuess == [g |-> 0, guess |-> [nan |-> TRUE, n |-> 0], reply |-> "none"]

Days == 1 .. 2
LoggedMetrics == {"game_started", "rating_submitted"}

NoModal == [user |-> NoUser, customId |-> << >>, handler |-> "none"]

NoQuestion == [difficulty |-> "none", operation |-> "none", num1 |-> 0, num2 |-> 0]

MoreInitVars ==
  /\ mathQuestion = NoQuestion
  /\ storeFailures = 0
  /\ modalsShown = {}
  /\ lastModal = NoModal
  /\ today = 1
  /\ analyticsTable = << >>
  /\ analyticsLogged = [k \in Days \X LoggedMetrics |-> [calls |-> 0, nan |-> FALSE, sum |-> 0]]

PlayInitVars ==
  /\ lastMove = NoMove /\ hangmanGames = << >> /\ lastGuess = NoGuess /\ rpsGames = << >>
  /\ MoreInitVars

OtherInitVars == RatingInitVars /\ PlayInitVars

RatingPresses ==
  LET RECURSIVE Sum(_)
      Sum(S) == IF S = {} THEN 0
                ELSE LET u == CHOOSE v \in S : TRUE
                     IN ratingLog[u].presses + Sum(S \ {u})
  IN Sum(Raters)

\* A rate_ button.  addRating throws before its first await when the rating
\* is out of range, and the handler with it.
HandleRating(u, suffix) ==
  LET rating == parseInt(suffix)
  IN /\ RatingPresses < MaxRatings
     /\ IF ratingOutOfRange(rating)
        THEN /\ ratingLog' = [ratingLog EXCEPT ![u].presses = @ + 1, ![u].rejected = @ + 1,
                                               ![u].raised = @ + 1]
             /\ UNCHANGED ratingOps
        ELSE /\ HasFree(ratingOps)
             /\ ratingOps' = [ratingOps EXCEPT ![FreeSlot(ratingOps)] =
                                [IdleRatingOp EXCEPT !.kind = "rating", !.pc = "find",
                                                     !.user = u, !.rating = rating]]
             /\ ratingLog' = [ratingLog EXCEPT ![u].presses = @ + 1]
     /\ UNCHANGED <<rateVars, storeVars, ticketVars, gameVars, playVars, userRatings, ratingMetric>>

\* addRating: findById returned.  Without a row addRating returns false.
RatingFindDone(i) ==
  LET op == ratingOps[i]
  IN /\ op.kind = "rating" /\ op.pc = "find"
     /\ IF users[op.user].exists
        THEN /\ ratingOps' = [ratingOps EXCEPT ![i].pc = "update",
                                               ![i].snap = userRatings[op.user]]
             /\ ratingLog' = [ratingLog EXCEPT ![op.user].overlap =
                                @ \/ \E j \in DOMAIN ratingOps :
                                       /\ j # i
                                       /\ ratingOps[j].pc = "update"
                                       /\ ratingOps[j].user = op.user]
        ELSE /\ ratingOps' = [ratingOps EXCEPT ![i].pc = "log"]
             /\ UNCHANGED ratingLog
     /\ UNCHANGED <<rateVars, storeVars, ticketVars, gameVars, playVars, userRatings, ratingMetric>>

\* addRating: UPDATE users SET rating_average = ?, rating_count = ?
RatingUpdateDone(i) ==
  LET op == ratingOps[i]
  IN /\ op.kind = "rating" /\ op.pc = "update"
     /\ userRatings' = [userRatings EXCEPT ![op.user] = addRating(op.snap, op.rating)]
     /\ ratingLog' = IF op.rating.nan
                     THEN [ratingLog EXCEPT ![op.user].nanWrites = @ + 1]
                     ELSE [ratingLog EXCEPT ![op.user].accepted = @ + 1,
                                            ![op.user].sum = @ + op.rating.n]
     /\ ratingOps' = [ratingOps EXCEPT ![i].pc = "log"]
     /\ UNCHANGED <<rateVars, storeVars, ticketVars, gameVars, playVars, ratingMetric>>

\* Analytics.logEvent('rating_submitted', rating)
RatingLogDone(i) ==
  LET op == ratingOps[i]
  IN /\ op.kind = "rating" /\ op.pc = "log"
     /\ ratingMetric' = logRatingEvent(ratingMetric, op.rating)
     /\ ratingOps' = [ratingOps EXCEPT ![i].pc = "reply"]
     /\ UNCHANGED <<rateVars, storeVars, ticketVars, gameVars, playVars, userRatings, ratingLog>>

\* interaction.update and interaction.followUp: outside every try block, so a
\* failure of either ends the handler with the error.
RatingReplyDone(i, ok) ==
  LET op == ratingOps[i]
  IN /\ op.kind = "rating" /\ op.pc = "reply"
     /\ IF ok
        THEN /\ ratingOps' = [ratingOps EXCEPT ![i].pc = "star"]
             /\ UNCHANGED ratingLog
        ELSE /\ ratingOps' = [ratingOps EXCEPT ![i] = IdleRatingOp]
             /\ ratingLog' = [ratingLog EXCEPT ![op.user].raised = @ + 1]
     /\ UNCHANGED <<rateVars, storeVars, ticketVars, gameVars, playVars, userRatings, ratingMetric>>

StarOutcomes == {"posted", "no_channel", "lookup_threw", "send_threw"}

afterStarLog_uncaught(outcome) == IF outcome = "send_threw" THEN "raised" ELSE "completed"

\* The star log is built and posted inside try { ... } catch (err) { log }.
afterStarLog(outcome) == "completed"

\* The star-log block, to the end of the handler.
RatingStarDone(i, outcome) ==
  LET op == ratingOps[i]
  IN /\ op.kind = "rating" /\ op.pc = "star"
     /\ ratingOps' = [ratingOps EXCEPT ![i] = IdleRatingOp]
     /\ ratingLog' =
          IF afterStarLog(outcome) = "raised"
          THEN [ratingLog EXCEPT ![op.user].raised = @ + 1]
          ELSE [ratingLog EXCEPT ![op.user].completed = @ + 1,
                                 ![op.user].starFailed =
                                    IF outcome = "posted" THEN @ ELSE @ + 1]
     /\ UNCHANGED <<rateVars, storeVars, ticketVars, gameVars, playVars, userRatings, ratingMetric>>

(***************************************************************************)
(* The analytics table (Analytics.logEvent, Ticket.logAnalytics): rows     *)
(* keyed by date and metric, UNIQUE(date, metric).                         *)
(***************************************************************************)
MaxLogCalls == 4

\* A value bound to the statement: a number, or NULL for NaN.
SqlValue(value) == [null |-> value.nan, n |-> IF value.nan THEN 0 ELSE value.n]

\* value + ?: NULL when either side is NULL.
SqlAdd(a, b) == IF a.null \/ b.null THEN [null |-> TRUE, n |-> 0]
                ELSE [null |-> FALSE, n |-> a.n + b.n]

analyticsUpsert_insertOnly(rows, date, metric, value) ==
  Append(rows, [date |-> date, metric |-> metric, value |-> SqlValue(value)])

\* INSERT INTO analytics (date, metric, value, metadata) VALUES (?, ?, ?, ?)
\*   ON CONFLICT(date, metric) DO UPDATE SET value = value + ?
analyticsUpsert(rows, date, metric, value) ==
  IF \E r \in 1 .. Len(rows) : rows[r].date = date /\ rows[r].metric = metric
  THEN [r \in 1 .. Len(rows) |->
          IF rows[r].date = date /\ rows[r].metric = metric
          THEN [rows[r] EXCEPT !.value = SqlAdd(@, SqlValue(value))]
          ELSE rows[r]]
  ELSE Append(rows, [date |-> date, metric |-> metric, value |-> SqlValue(value)])

LogCalls ==
  LET RECURSIVE Sum(_)
      Sum(S) == IF S = {} THEN 0
                ELSE LET k == CHOOSE x \in S : TRUE
                     IN analyticsLogged[k].calls + Sum(S \ {k})
  IN Sum(Days \X LoggedMetrics)

noteLogged(metric, value) ==
  [analyticsLogged EXCEPT ![<<today, metric>>] =
     [calls |-> @.calls + 1, nan |-> @.nan \/ value.nan,
      sum |-> IF value.nan THEN @.sum ELSE @.sum + value.n]]

\* Analytics.logEvent(metric, value): today's date, then the upsert.
Analytics_logEvent(metric, value) ==
  /\ LogCalls < MaxLogCalls
  /\ analyticsTable' = analyticsUpsert(analyticsTable, today, metric, value)
  /\ analyticsLogged' = noteLogged(metric, value)
  /\ UNCHANGED <<rateVars, storeVars, ticketVars, gameVars, ratingVars, lastMove, hangmanGames,
                 lastGuess, rpsGames, today, lateVars>>

\* Ticket.logAnalytics(metric, value): the same statement.
Ticket_logAnalytics(metric, value) ==
  /\ LogCalls < MaxLogCalls
  /\ analyticsTable' = analyticsUpsert(analyticsTable, today, metric, value)
  /\ analyticsLogged' = noteLogged(metric, value)
  /\ UNCHANGED <<rateVars, storeVars, ticketVars, gameVars, ratingVars, lastMove, hangmanGames,
                 lastGuess, rpsGames, today, lateVars>>

\* Midnight passes.
NextDay ==
  /\ today + 1 \in Days
  /\ today' = today + 1
  /\ UNCHANGED <<rateVars, storeVars, ticketVars, gameVars, ratingVars, lastMove, hangmanGames,
                 lastGuess, rpsGames, analyticsTable, analyticsLogged, lateVars>>

(***************************************************************************)
(* Specification of the rate limiter alone.                                *)
(***************************************************************************)
RateInit == RateInitVars /\ StoreInitVars /\ TicketInitVars /\ GameInitVars /\ OtherInitVars

RateNext ==
  \/ \E m \in RateMaps : \E k \in RateKeys[m] : RateCall(m, k)
  \/ \E t \in TimePoints : Tick(t)
  \/ Sweep

RateSpec == RateInit /\ [][RateNext]_vars

(***************************************************************************)
(* Specification of ticket creation with claim and close.                  *)
(***************************************************************************)
TicketInit == RateInit

TicketStep(i) ==
  \/ CreateChannelDone(i) \/ CreateInsertDone(i) \/ CreateUserCountDone(i)
  \/ CreateAnalyticsDone(i) \/ CreatePanelDone(i)
  \/ ClaimFindDone(i) \/ ClaimUpdateDone(i) \/ ClaimAnalyticsDone(i)
  \/ CloseFindDone(i) \/ CloseDmDone(i) \/ CloseUpdateDone(i) \/ CloseCountDone(i)
  \/ CloseAnalyticsDone(i) \/ CloseReplyDone(i)

TicketNext ==
  \/ \E u \in Customers : HandleTicketTypeSelect(u) \/ HandleTicketModal(u)
  \/ \E s \in Agents, ch \in 1 .. MaxChannels : HandleClaimTicket(s, ch) \/ HandleCloseTicket(s, ch)
  \/ \E s \in Agents, ch \in 1 .. MaxChannels : HandleCloseReasonModal(s, ch, "resolved")
  \/ \E i \in 1 .. MaxTicketOps : TicketStep(i)
  \/ \E ch \in 1 .. MaxChannels : DeleteChannel(ch)

TicketSpec == TicketInit /\ [][TicketNext]_vars

(***************************************************************************)
(* Specification of the life of one ticket: the state after user u1 opened *)
(* a ticket, then claim and close by any member, with the staff role       *)
(* revocable.                                                              *)
(***************************************************************************)
\* Tables and guild after u1 opened one ticket and its panel was posted.
OneTicket ==
  /\ users = [u \in Users |-> IF u = "u1" THEN [NoRow EXCEPT !.exists = TRUE, !.ticketsCreated = 1]
                              ELSE NoRow]
  /\ staff = InitialStaff
  /\ channels = << [NewChannel("u1") EXCEPT !.panel = TRUE] >>
  /\ tickets = << NewTicket(1, "u1") >>
  /\ forms = [u \in Users |-> 0]
  /\ closeForms = {}
  /\ ticketOps = [i \in 1 .. MaxTicketOps |-> IdleOp]
  /\ chanLog = << NoLog >>
  /\ deleteTimers = << 0 >>
  /\ ratingRequests = [u \in Users |-> 0]
  /\ now = 0
  /\ ticketRateLimits = [EmptyRateMap EXCEPT !["u1"] = [count |-> 1, resetTime |-> TICKET_WINDOW_MS]]
  /\ rlRef = [m \in RateMaps |-> [k \in Users |-> NoWindow]]
  /\ rlLast = NoCall

LifecycleInit ==
  /\ OneTicket
  /\ gameRateLimits = EmptyRateMap
  /\ analytics = [m \in Metrics |-> IF m = "ticket_created" THEN 1 ELSE 0]
  /\ GameInitVars
  /\ OtherInitVars

LifecycleStep(i) ==
  \/ ClaimFindDone(i) \/ ClaimUpdateDone(i) \/ ClaimAnalyticsDone(i)
  \/ CloseFindDone(i) \/ CloseDmDone(i) \/ CloseUpdateDone(i) \/ CloseCountDone(i)
  \/ CloseAnalyticsDone(i) \/ CloseReplyDone(i)

LifecycleNext ==
  \/ \E s \in Users : HandleClaimTicket(s, 1) \/ HandleCloseTicket(s, 1)
  \/ \E s \in Users, r \in Reasons : HandleCloseReasonModal(s, 1, r)
  \/ \E i \in 1 .. MaxTicketOps : LifecycleStep(i)
  \/ \E s \in Revocable : RevokeStaff(s)
  \/ DeleteChannel(1)

LifecycleSpec == LifecycleInit /\ [][LifecycleNext]_vars


(***************************************************************************)
(* Specification of channel visibility: the state after user u1 opened a  *)
(* ticket, then lock and unlock by any member.                             *)
(***************************************************************************)
VisibilityStep(i) ==
  \/ LockEveryoneDone(i) \/ LockActorDone(i) \/ UnlockEveryoneDone(i)
  \/ VisibilityEditFailed(i)

\* Lock and unlock pressed by everyone, while one agent claims and closes
\* the ticket and the closed ticket's channel is deleted.
VisibilityNext ==
  \/ \E s \in Users : HandleLockTicket(s, 1) \/ HandleUnlockTicket(s, 1)
  \/ \E i \in 1 .. MaxTicketOps : VisibilityStep(i)
  \/ \E s \in Revocable : RevokeStaff(s)
  \/ \E s \in Agents : HandleClaimTicket(s, 1) \/ HandleCloseTicket(s, 1)
  \/ \E s \in Agents : HandleCloseReasonModal(s, 1, "resolved")
  \/ \E i \in 1 .. MaxTicketOps : LifecycleStep(i)
  \/ DeleteChannel(1)

VisibilitySpec == LifecycleInit /\ [][VisibilityNext]_vars

(***************************************************************************)
(* Properties of the ticket lifecycle.                                     *)
(***************************************************************************)
Active(t) == tickets[t].status \in {"open", "claimed"}
InFlight(kind, ch) == {i \in DOMAIN ticketOps : ticketOps[i].kind = kind /\ ticketOps[i].ch = ch}
Rows(Pred(_)) == Cardinality({t \in 1 .. Len(tickets) : Pred(tickets[t])})

\* C1: every user owns at most one ticket whose status is open or claimed,
\* whatever the interleaving of selections, form submissions, claims and
\* closes, two forms opened by one user and both submitted included.
C1_OneActiveTicketPerUser ==
  \A u \in Users : Cardinality({t \in 1 .. Len(tickets) : tickets[t].userId = u /\ Active(t)}) <= 1

\* The close attempts on channel ch that passed Ticket.close's UPDATE and have
\* not yet sent their closing message.
Closing(ch) == {i \in InFlight("close", ch) : ticketOps[i].pc \in {"count", "analytics", "reply"}}

\* C6: of any number of close attempts on one ticket exactly one succeeds:
\* closed_by and close_reason are the successful attempt's, the owner's
\* tickets_closed grows by one, one ticket_closed event is recorded and one
\* channel deletion is scheduled; every other attempt reports failure.
C6_CloseExactlyOnce ==
  /\ \A ch \in 1 .. Len(channels) :
       LET l == chanLog[ch]
           t == findByChannelId(ch)
       IN /\ l.closeOk + Cardinality(Closing(ch)) <= 1
          /\ l.deletions = l.closeOk
          /\ l.closeOk = 1 =>
               /\ t # 0 /\ tickets[t].status = "closed"
               /\ tickets[t].closedBy = l.closeBy /\ tickets[t].closeReason = l.closeReason
          /\ \A i \in Closing(ch) :
               /\ tickets[ticketOps[i].ticket].status = "closed"
               /\ tickets[ticketOps[i].ticket].closedBy = ticketOps[i].user
               /\ tickets[ticketOps[i].ticket].closeReason = ticketOps[i].reason
          /\ InFlight("close", ch) = {} =>
               /\ l.closeTries = l.closeOk + l.closeFailed
               /\ l.closeTries >= 1 => l.closeOk = 1
  /\ analytics["ticket_closed"] <= Rows(LAMBDA r : r.status = "closed")
  /\ \A u \in Users : users[u].ticketsClosed <= Rows(LAMBDA r : r.status = "closed" /\ r.userId = u)
  /\ (\A i \in DOMAIN ticketOps : ticketOps[i].kind # "close") =>
       /\ analytics["ticket_closed"] = Rows(LAMBDA r : r.status = "closed")
       /\ \A u \in Users :
            users[u].ticketsClosed = Rows(LAMBDA r : r.status = "closed" /\ r.userId = u)

\* Two close attempts on one ticket are over: one succeeded, the other failed.
C6_Witness ==
  \E ch \in 1 .. Len(channels) :
    /\ chanLog[ch].closeTries = 2 /\ InFlight("close", ch) = {}
    /\ chanLog[ch].closeOk = 1 /\ chanLog[ch].closeFailed = 1

\* C7: a ticket's status only moves open -> claimed, open -> closed or
\* claimed -> closed; a closed ticket keeps its status, closed_by and
\* close_reason, and a claimed ticket never returns to open.
C7_StatusTransitions ==
  [][\A t \in 1 .. Len(tickets) :
       /\ tickets'[t].status # tickets[t].status =>
            <<tickets[t].status, tickets'[t].status>> \in
              {<<"open", "claimed">>, <<"open", "closed">>, <<"claimed", "closed">>}
       /\ tickets[t].status = "closed" =>
            /\ tickets'[t].closedBy = tickets[t].closedBy
            /\ tickets'[t].closeReason = tickets[t].closeReason]_vars

\* A ticket went open -> claimed -> closed and a later close attempt failed on it.
C7_Witness ==
  \E t \in 1 .. Len(tickets) :
    /\ tickets[t].status = "closed" /\ tickets[t].claimedBy # NoUser
    /\ chanLog[tickets[t].channelId].closeFailed >= 1

\* C8: of two staff members who claim one open ticket concurrently exactly
\* one succeeds: claimed_by is the winner's and is never overwritten, by the
\* losing claim or by a later close; the loser is told the claim failed; one
\* ticket_claimed event is recorded; a claim on a ticket that is claimed or
\* closed changes nothing.
C8_State ==
  /\ \A ch \in 1 .. Len(channels) :
       LET l == chanLog[ch]
           t == findByChannelId(ch)
           won == {i \in InFlight("claim", ch) : ticketOps[i].pc = "analytics"}
       IN /\ l.claimOk + Cardinality(won) <= 1
          /\ l.claimOk = 1 => t # 0 /\ tickets[t].claimedBy = l.claimBy
          /\ \A i \in won : tickets[ticketOps[i].ticket].claimedBy = ticketOps[i].user
          /\ InFlight("claim", ch) = {} =>
               /\ l.claimTries = l.claimOk + l.claimStale + l.claimLost
               /\ l.claimOk = 1 <=> (t # 0 /\ tickets[t].claimedBy # NoUser)
               /\ l.claimLost >= 1 => tickets[t].status # "open"
  /\ analytics["ticket_claimed"] <= Rows(LAMBDA r : r.claimedBy # NoUser)
  /\ (\A i \in DOMAIN ticketOps : ticketOps[i].kind # "claim") =>
       analytics["ticket_claimed"] = Rows(LAMBDA r : r.claimedBy # NoUser)

C8_ClaimExactlyOnce ==
  /\ []C8_State
  /\ [][\A t \in 1 .. Len(tickets) :
          tickets[t].status # "open" => tickets'[t].claimedBy = tickets[t].claimedBy]_vars

\* Two claims raced: one won, the other lost at the UPDATE, and the ticket was
\* closed afterwards with claimed_by still the winner's.
C8_Witness ==
  \E ch \in 1 .. Len(channels) :
    /\ chanLog[ch].claimOk = 1 /\ chanLog[ch].claimLost = 1
    /\ tickets[findByChannelId(ch)].status = "closed"
    /\ tickets[findByChannelId(ch)].claimedBy = chanLog[ch].claimBy

\* C9: no ticket becomes claimed or closed, and no channel's visibility
\* changes, as the result of an event whose actor lacks a staff role: claim,
\* close request, close finisher, lock and unlock reject such an actor before
\* they change anything.
C9_StaffOnly == \A ch \in 1 .. Len(channels) : ~chanLog[ch].nonStaffMutation

(***************************************************************************)
(* Properties of the rate limiter.                                         *)
(***************************************************************************)
\* C10: for one key the i-th call of a window (now <= resetTime) is allowed
\* iff i <= maxRequests; the first call with now > resetTime is allowed and
\* leaves count = 1 and resetTime = now + windowMs; with the ticket limits
\* three calls are allowed and the fourth is denied.
C10_FixedWindow ==
  rlLast # NoCall =>
    /\ rlLast.allowed <=> rlLast.idx <= rlLast.max
    /\ rlLast.count = rlLast.idx
    /\ rlLast.resetTime = rlLast.reset

\* The fourth ticket request of a window, made at the window's reset time, is denied.
C10_Witness ==
  /\ rlLast.map = "ticket" /\ rlLast.at = TICKET_WINDOW_MS
  /\ rlLast.idx = TICKET_MAX_REQUESTS + 1 /\ ~rlLast.allowed


(***************************************************************************)
(* Specification of the game sessions: u1, who opened a ticket, starts     *)
(* games and plays them; the Tic-Tac-Toe board has its own specification.  *)
(***************************************************************************)
GameInit == LifecycleInit

GameStep(i) ==
  \/ StartLogDone(i) \/ GameUpdateDone(i) \/ EndGameStatsDone(i)
  \/ EndGameLogDone(i) \/ GameReplyDone(i)

GameNext ==
  \/ \E u \in Players, gameType \in GameTypes :
       HandleGameSelect(u, gameType) \/ HandleGameButton(u, gameType) \/ HandlePlayAgain(u, gameType)
  \/ \E u \in Players, userChoice \in RPS_CHOICES, aiChoice \in RPS_CHOICES :
       HandleRockPaperScissors(u, userChoice, aiChoice)
  \/ \E u \in Players, answerIndex \in 0 .. 3 : HandleTrivia(u, answerIndex)
  \/ \E u \in Players, content \in MessageInputs : HandleMessage(u, content)
  \/ \E g \in 1 .. MaxGames : TimerFire(g)
  \/ \E i \in 1 .. MaxGameOps : GameStep(i)

GameSpec == GameInit /\ [][GameNext]_vars

(***************************************************************************)
(* Specification of one Tic-Tac-Toe session: the state after u1 started    *)
(* the game, then the moves of the player and the answers of the AI.       *)
(***************************************************************************)
TTTInit ==
  /\ OneTicket
  /\ gameRateLimits = [EmptyRateMap EXCEPT !["u1"] = [count |-> 1, resetTime |-> GAME_WINDOW_MS]]
  /\ analytics = [m \in Metrics |-> IF m \in {"ticket_created", "game_started"} THEN 1 ELSE 0]
  /\ activeGames = [p \in Players |-> 1]
  /\ games = << NewGame("tictactoe", "u1", 0) >>
  /\ timers = {}
  /\ gameOps = [i \in 1 .. MaxGameOps |-> IdleGameOp]
  /\ gameEnds = << NoEnds >>
  /\ lastStart = [user |-> "u1", reply |-> "started", had |-> 0]
  /\ aiRandomUsed = FALSE
  /\ OtherInitVars

TTTNext ==
  \/ \E u \in Players, moveIndex \in Cells, roll \in BOOLEAN : HandleTicTacToeMove(u, moveIndex, roll)
  \/ \E i \in 1 .. MaxGameOps : EndGameStatsDone(i) \/ EndGameLogDone(i)

TTTSpec == TTTInit /\ [][TTTNext]_vars


(***************************************************************************)
(* Properties of the game sessions.                                        *)
(***************************************************************************)
\* C2: a game-start request (menu, game_ button or play_again_ button) of a
\* user who has an entry in activeGames is rejected and leaves the entry, the
\* sessions and the timers as they were; an entry is never replaced by
\* another session, only removed.
C2_StartNeverOverwrites ==
  /\ [][gameRateLimits' # gameRateLimits /\ activeGames[lastStart'.user] # 0 =>
          /\ lastStart'.reply \in {"active", "ratelimited"}
          /\ UNCHANGED <<activeGames, games, timers>>]_vars
  /\ [][\A u \in Players :
          activeGames[u] # 0 => activeGames'[u] \in {activeGames[u], 0}]_vars

\* A start request was rejected because its user's session is still there.
C2_Witness ==
  /\ lastStart.reply = "active" /\ lastStart.had # 0
  /\ activeGames[lastStart.user] = lastStart.had

Ended(g) == games[g].result # "none" \/ games[g].winner # Null \/ gameEnds[g].events > 0
Handling(g) == {i \in DOMAIN gameOps : gameOps[i].kind # "idle" /\ gameOps[i].g = g}

\* C3: when a game of any of the six variants reaches a terminal result its
\* session is out of activeGames by the time the terminating handler is done.
C3_TerminalSessionRemoved ==
  \A g \in 1 .. Len(games) :
    Ended(g) /\ Handling(g) = {} => \A u \in Players : activeGames[u] # g

\* C4: games_played is incremented once and one game_ended event is recorded
\* per session, whatever input or timeout arrives while the first
\* terminating handler is suspended.
C4_EndedOnce ==
  \A g \in 1 .. Len(games) : gameEnds[g].stats <= 1 /\ gameEnds[g].events <= 1

Line(board, sym) ==
  \E k \in 1 .. Len(winPatterns) : \A j \in 1 .. 3 : board[winPatterns[k][j] + 1] = sym

\* C5: in a Tic-Tac-Toe game in which every AI move comes from minimax and
\* the human moves first as X, the human never completes three in a row.
C5_MinimaxNeverLoses ==
  \A g \in 1 .. Len(games) :
    games[g].type = "tictactoe" /\ ~aiRandomUsed =>
      ~(Line(games[g].board, "X") /\ ~Line(games[g].board, "O"))

(***************************************************************************)
(* Specification of the ratings: after u1 opened a ticket, u1 (who has a   *)
(* row in users) and s1 (who has none) press rate_ buttons.                *)
(***************************************************************************)
RatingInit == LifecycleInit

RatingStep(i) ==
  \/ RatingFindDone(i) \/ RatingUpdateDone(i) \/ RatingLogDone(i)
  \/ \E ok \in BOOLEAN : RatingReplyDone(i, ok)
  \/ \E outcome \in StarOutcomes : RatingStarDone(i, outcome)

RatingNext ==
  \/ \E u \in Raters, suffix \in RatingSuffixes : HandleRating(u, suffix)
  \/ \E i \in 1 .. MaxRatingOps : RatingStep(i)

RatingSpec == RatingInit /\ [][RatingNext]_vars

(***************************************************************************)
(* Properties of the ratings.                                              *)
(***************************************************************************)
InvalidRating(rating) == rating.nan \/ rating.n < 1 \/ rating.n > 5

\* C11: a rating submission whose value is not an integer in 1..5 (0, 6, or
\* a suffix that is not a number) changes neither (rating_average,
\* rating_count) of any user nor the rating_submitted row of analytics: no
\* step of a handleRating call that carries such a value, and no step that
\* rejects a value, touches them.
C11_InvalidRatingChangesNothing ==
  [][/\ \A i \in 1 .. MaxRatingOps :
          (/\ ratingOps[i].kind = "rating"
           /\ InvalidRating(ratingOps[i].rating)
           /\ ratingOps'[i] # ratingOps[i])
          => (userRatings' = userRatings /\ ratingMetric' = ratingMetric)
     /\ \A u \in Raters :
          ratingLog'[u].rejected # ratingLog[u].rejected
          => (userRatings' = userRatings /\ ratingMetric' = ratingMetric)]_vars

\* C12: when the accepted ratings of a user were applied one after another
\* (no two addRating calls overlapped and no NaN was written), rating_count
\* is the number of accepted ratings and rating_average * rating_count is
\* their sum.
C12_AverageIsSumOverCount ==
  \A u \in Raters :
    (~ratingLog[u].overlap /\ ratingLog[u].nanWrites = 0)
    => /\ userRatings[u].count = ratingLog[u].accepted
       /\ ~userRatings[u].avg.null
       /\ userRatings[u].avg.num * userRatings[u].count
            = ratingLog[u].sum * userRatings[u].avg.den

\* (average 4, count 2) followed by rating 5: count 3 and average 13/3.
C12_Witness ==
  /\ ~ratingLog["u1"].overlap /\ ratingLog["u1"].nanWrites = 0
  /\ ratingLog["u1"].sum = 13
  /\ userRatings["u1"] = [avg |-> [null |-> FALSE, num |-> 13, den |-> 3], count |-> 3]

(***************************************************************************)
(* Specification of the game sessions with the moves that find no session. *)
(***************************************************************************)
MoveInit == GameInit

MoveNext ==
  \/ \E u \in Players, gameType \in GameTypes : HandleGameSelect(u, gameType)
  \/ \E u \in Players : HandleRockPaperScissors(u, "rock", "paper")
  \/ \E u \in Players : HandleTrivia(u, 1)
  \/ \E u \in Players : HandleMessage(u, Num(1))
  \/ \E i \in 1 .. MaxGameOps : GameStep(i)
  \/ \E u \in Players, kind \in MoveKinds : MoveWithoutSession(u, kind)

MoveSpec == MoveInit /\ [][MoveNext]_vars

\* C13: a move, answer, choice or guess of a user who has no session, or
\* whose session is of another game type, changes nothing.  A step that
\* answers such a move leaves sessions, boards, counters and tables as they
\* are; a move handler only ever goes on with the session of its own type
\* that is active for its user; and a session only changes while it is
\* active for its user or held by a suspended handler.
C13_MoveWithoutSessionChangesNothing ==
  [][/\ lastMove' # lastMove => UNCHANGED <<gameVars, storeVars>>
     /\ \A i \in 1 .. MaxGameOps :
          (gameOps[i].kind = "idle" /\ gameOps'[i].kind \notin {"idle", "start", "timeout"})
          => /\ activeGames[gameOps'[i].user] = gameOps'[i].g
             /\ games[gameOps'[i].g].type = gameOps'[i].kind
     /\ \A g \in 1 .. Len(games) :
          games'[g] # games[g]
          => \/ activeGames[games[g].userId] = g
             \/ \E i \in 1 .. MaxGameOps : gameOps[i].kind # "idle" /\ gameOps[i].g = g]_vars

\* A rps_ button was pressed while the user's session was of another type.
C13_Witness ==
  /\ lastMove.kind = "rps" /\ lastMove.had # 0
  /\ games[lastMove.had].type # "rps"
  /\ activeGames[lastMove.user] = lastMove.had

\* C14: a timeout callback only ever ends the session it was registered
\* for.  No step of the callback of session g removes the entry of another
\* session from activeGames or counts an end for another session, and a
\* callback that fires when its session is no longer in activeGames changes
\* nothing but the set of pending timers.
C14_TimeoutEndsOnlyItsSession ==
  [][/\ \A i \in 1 .. MaxGameOps :
          (gameOps[i].kind = "timeout" /\ gameOps'[i] # gameOps[i])
          => /\ \A u \in Players :
                  activeGames[u] # gameOps[i].g => activeGames'[u] = activeGames[u]
             /\ \A g \in 1 .. Len(gameEnds) :
                  g # gameOps[i].g => gameEnds'[g] = gameEnds[g]
     /\ \A g \in timers \ timers' :
          (\A u \in Players : activeGames[u] # g) /\ gameOps' = gameOps
          => UNCHANGED <<activeGames, games, gameEnds, storeVars>>]_vars

(***************************************************************************)
(* Specification of Hangman: the state after u1 started a Hangman game,    *)
(* of GameHandler or of the standalone class, then the letters guessed.    *)
(***************************************************************************)
HangmanInit ==
  /\ OneTicket
  /\ gameRateLimits = [EmptyRateMap EXCEPT !["u1"] = [count |-> 1, resetTime |-> GAME_WINDOW_MS]]
  /\ gameOps = [i \in 1 .. MaxGameOps |-> IdleGameOp]
  /\ lastStart = [user |-> "u1", reply |-> "started", had |-> 0]
  /\ aiRandomUsed = FALSE
  /\ RatingInitVars
  /\ lastMove = NoMove
  /\ lastGuess = NoGuess
  /\ rpsGames = << >>
  /\ MoreInitVars
  /\ \/ /\ analytics = [m \in Metrics |-> IF m \in {"ticket_created", "game_started"} THEN 1 ELSE 0]
        /\ activeGames = [p \in Players |-> 1]
        /\ games = << NewGame("hangman", "u1", 0) >>
        /\ timers = {1}
        /\ gameEnds = << NoEnds >>
        /\ hangmanGames = << >>
     \/ /\ analytics = [m \in Metrics |-> IF m = "ticket_created" THEN 1 ELSE 0]
        /\ activeGames = [p \in Players |-> 0]
        /\ games = << >>
        /\ timers = {}
        /\ gameEnds = << >>
        /\ hangmanGames = << NewHangmanGame("u1") >>

HangmanNext ==
  \/ \E u \in Players, text \in HangmanInputs : HandleHangmanGuessModal(u, text)
  \/ \E i \in 1 .. MaxGameOps : GameUpdateDone(i) \/ EndGameStatsDone(i) \/ EndGameLogDone(i)
  \/ TimerFire(1)
  \/ \E u \in {"u1", "s1"}, text \in HangmanClassInputs : Hangman_handleGuess(u, text, 1)
  \/ Hangman_timeout(1)

HangmanSpec == HangmanInit /\ [][HangmanNext]_vars

\* The session g of GameHandler has ended: a handler holds it with a result,
\* or its result is stored.
HangmanDecided(g) ==
  \/ games[g].result # "none"
  \/ \E i \in 1 .. MaxGameOps : gameOps[i].kind \in {"hangman", "timeout"} /\ gameOps[i].g = g

\* C15: a Hangman session with maxWrongGuesses = 6 ends with result lose
\* exactly when the 6th distinct letter absent from the word is guessed and
\* with result win exactly when every letter of the word has been guessed;
\* a guess that ends neither way leaves the session in the table, and a
\* session that ended is removed from it.  For GameHandler: a guess on a
\* session that has not ended enters the end of the game with lose, or with
\* win, exactly in those cases, and the handler that ends the game removes
\* the entry when it is done.  For the class Hangman: a guess on a game that
\* is not over marks it over exactly in those cases, and a game is in the
\* table iff it is not over.
C15_HangmanEnds ==
  [][/\ \A g \in 1 .. Len(games) :
          (games[g].type = "hangman" /\ games'[g].guessed # games[g].guessed
             /\ ~HangmanDecided(g))
          => LET word == games[g].word
                 letters == games'[g].guessed \ games[g].guessed
                 absent == games'[g].guessed \ Chars(word)
                 ended(result) == \E i \in 1 .. MaxGameOps :
                                    /\ gameOps[i].kind = "idle"
                                    /\ gameOps'[i].kind = "hangman"
                                    /\ gameOps'[i].g = g
                                    /\ gameOps'[i].result = result
             IN /\ ended("lose") <=> (letters \cap Chars(word) = {} /\ Cardinality(absent) = 6)
                /\ ended("win") <=> Chars(word) \subseteq games'[g].guessed
                /\ activeGames'[games[g].userId] = g
                /\ ~ended("lose") /\ ~ended("win") => gameOps' = gameOps
     /\ \A i \in 1 .. MaxGameOps :
          (gameOps[i].kind = "hangman" /\ gameOps'[i].kind = "idle")
          => activeGames'[gameOps[i].user] # gameOps[i].g
     /\ \A id \in DOMAIN hangmanGames :
          (hangmanGames'[id].guessedLetters # hangmanGames[id].guessedLetters
             /\ ~hangmanGames[id].gameOver)
          => LET game == hangmanGames'[id]
                 letters == game.guessedLetters \ hangmanGames[id].guessedLetters
                 absent == {l \in game.guessedLetters : ~includes(game.word, l)}
                 all == \A c \in Chars(game.word) : <<c>> \in game.guessedLetters
             IN /\ game.gameOver <=> \/ (letters \subseteq absent /\ Cardinality(absent) = 6)
                                     \/ all
                /\ game.present = ~game.gameOver]_vars

\* A GameHandler session lost on the 6th absent letter and was removed.
C15_Witness ==
  /\ Len(games) = 1 /\ games[1].type = "hangman"
  /\ games[1].result = "lose" /\ games[1].wrongGuesses = 6
  /\ Cardinality(games[1].guessed \ Chars(games[1].word)) = 6
  /\ activeGames["u1"] = 0
  /\ \A i \in 1 .. MaxGameOps : gameOps[i].kind = "idle"


\* ---------------------------------------------------------------------
\* Number Guessing alone: sessions are started, guessed at, timed out.
GuessInit == GameInit

GuessNext ==
  \/ \E u \in Players : HandleGameSelect(u, "guess")
  \/ \E u \in Players, content \in MessageInputs : HandleGuess(u, content)
  \/ \E g \in 1 .. MaxGames : TimerFire(g)
  \/ \E i \in 1 .. MaxGameOps :
       StartLogDone(i) \/ EndGameStatsDone(i) \/ EndGameLogDone(i) \/ GameReplyDone(i)

GuessSpec == GuessInit /\ [][GuessNext]_vars

ValidGuess(content) ==
  ~content.nan /\ content.n >= GUESS_RANGE_MIN /\ content.n <= GUESS_RANGE_MAX

\* The step is an answer of handleGuess to player u, whose session had not
\* ended before it.
GuessAnswered(u) ==
  /\ activeGames[u] # 0
  /\ IF activeGames[u] # 0
     THEN /\ games[activeGames[u]].type = "guess"
          /\ games[activeGames[u]].result = "none"
     ELSE FALSE
  /\ lastGuess'.reply # "none"
  /\ lastGuess'.g = activeGames[u]
  /\ lastGuess' # lastGuess \/ games' # games

\* C16: a Number Guessing session is lost exactly when the last of the
\* GUESS_MAX_ATTEMPTS valid guesses is wrong and won exactly when a valid
\* guess equals the number; a guess that is no number of the range consumes
\* no attempt and changes nothing of the session; every other valid guess
\* adds one attempt and is answered "higher" exactly when it is below the
\* number and "lower" exactly when it is above it.
C16_GuessOutcome ==
  [][\A u \in Players :
       GuessAnswered(u) =>
         LET g == activeGames[u]
             guess == lastGuess'.guess
             reply == lastGuess'.reply
             number == games[g].secret
         IN /\ (reply = "invalid") = ~ValidGuess(guess)
            /\ reply = "invalid" => games' = games /\ gameOps' = gameOps /\ timers' = timers
            /\ reply # "invalid" => games'[g].attempts = games[g].attempts + 1
            /\ (reply = "win") = (ValidGuess(guess) /\ guess.n = number)
            /\ (reply = "lose") = (/\ ValidGuess(guess) /\ guess.n # number
                                   /\ games[g].attempts + 1 = GUESS_MAX_ATTEMPTS)
            /\ (reply = "higher") = (/\ ValidGuess(guess) /\ guess.n < number
                                     /\ games[g].attempts + 1 < GUESS_MAX_ATTEMPTS)
            /\ (reply = "lower") = (/\ ValidGuess(guess) /\ guess.n > number
                                    /\ games[g].attempts + 1 < GUESS_MAX_ATTEMPTS)
            /\ games'[g].result = (IF reply \in {"win", "lose"} THEN reply ELSE "none")]_vars

\* A session lost by its seventh wrong guess, after hints both ways were
\* possible: the last guess was above the number.
C16_Witness ==
  /\ lastGuess.reply = "lose"
  /\ lastGuess.g # 0
  /\ IF lastGuess.g # 0
     THEN /\ games[lastGuess.g].attempts = GUESS_MAX_ATTEMPTS
          /\ games[lastGuess.g].result = "lose"
          /\ lastGuess.guess.n > games[lastGuess.g].secret
     ELSE FALSE


\* ---------------------------------------------------------------------
\* The RockPaperScissors class alone: games are started, played with every
\* pair of choices, and timed out.
RPSInit == LifecycleInit

RPSNext ==
  \/ \E u \in Raters : RPS_startGame(u)
  \/ \E u \in Raters, choice \in RPS_CHOICES, botChoice \in RPS_CHOICES, gameId \in 1 .. MaxRpsGames :
       RPS_handleChoice(u, choice, botChoice, gameId)
  \/ \E gameId \in 1 .. MaxRpsGames : RPS_timeout(gameId)

RPSSpec == RPSInit /\ [][RPSNext]_vars

\* rock > scissors > paper > rock
Beats(a, b) == <<a, b>> \in {<<"rock", "scissors">>, <<"scissors", "paper">>, <<"paper", "rock">>}

\* C17: for every pair of choices played the result is tie exactly when
\* the choices are equal, win exactly when the player's choice beats the
\* other, lose otherwise; and getRPSResult of the game handler gives the
\* same result as determineWinner gave.
C17_RPSResult ==
  \A gameId \in DOMAIN rpsGames :
    LET game == rpsGames[gameId]
    IN game.playerChoice # Null =>
         /\ (game.result = "tie") = (game.playerChoice = game.botChoice)
         /\ (game.result = "win") = Beats(game.playerChoice, game.botChoice)
         /\ (game.result = "lose") = (/\ game.playerChoice # game.botChoice
                                      /\ ~Beats(game.playerChoice, game.botChoice))
         /\ getRPSResult(game.playerChoice, game.botChoice) = game.result

\* Three games played: one won, one lost, one tied.
C17_Witness ==
  /\ Len(rpsGames) = 3
  /\ \A r \in {"win", "lose", "tie"} : \E gameId \in DOMAIN rpsGames : rpsGames[gameId].result = r


\* The step belongs to a lock or an unlock: the button is pressed, or one of
\* the channel edits of a suspended lock or unlock returns or throws.
VisibilityStepTaken ==
  \E i \in 1 .. MaxTicketOps :
    /\ ticketOps'[i] # ticketOps[i]
    /\ ticketOps[i].kind \in {"lock", "unlock"} \/ ticketOps'[i].kind \in {"lock", "unlock"}

\* C18: no step of lock or unlock changes a ticket row or a user row,
\* whatever the status of the ticket and whether the channel edit succeeds
\* or throws.
C18_LockLeavesRows ==
  [][VisibilityStepTaken => tickets' = tickets /\ users' = users]_vars

\* A lock whose first edit succeeded on a ticket that is closed, with the
\* owner's closed-ticket counter raised.
C18_Witness ==
  /\ tickets[1].status = "closed"
  /\ users["u1"].ticketsClosed = 1
  /\ \E i \in 1 .. MaxTicketOps : ticketOps[i].kind = "lock" /\ ticketOps[i].pc = "actor"


\* The close attempts that sent their rating request and whose Ticket.close
\* has not failed: those suspended after sendRatingRequest.
ClosePastRating ==
  {i \in 1 .. MaxTicketOps :
     ticketOps[i].kind = "close" /\ ticketOps[i].pc \in {"update", "count", "analytics", "reply"}}

\* C19: a rating request is sent to the owner only for a close attempt
\* that succeeds: the requests sent never exceed the closes that succeeded
\* plus the attempts whose Ticket.close is still to answer or has answered
\* true.
C19_RatingRequestOnlyForSuccessfulClose ==
  ratingRequests["u1"] <= chanLog[1].closeOk + Cardinality(ClosePastRating)


\* ---------------------------------------------------------------------
\* The best-effort ends of handleRating and handleClaimTicket: u1 rates,
\* staff claim the ticket with auto-assign switched on.
BestEffortInit == LifecycleInit

BestEffortNext ==
  \/ HandleRating("u1", <<"5">>)
  \/ \E i \in 1 .. MaxRatingOps : RatingStep(i)
  \/ \E s \in Users : HandleClaimTicket(s, 1)
  \/ \E i \in 1 .. MaxTicketOps : ClaimFindDone(i) \/ ClaimUpdateDone(i)
  \/ \E i \in 1 .. MaxTicketOps, outcome \in AssignOutcomes : ClaimAutoAssignDone(i, outcome)

BestEffortSpec == BestEffortInit /\ [][BestEffortNext]_vars

\* C20: the star-log block and the auto-assign block never fail or undo
\* the operation they follow.  The step that ends handleRating after the
\* star log, whether it was posted, found no channel or threw, completes
\* the handler without an error and leaves the rating as recorded (the count
\* above the count the handler read, when no two addRating calls of the user
\* overlapped); the step that ends
\* handleClaimTicket after auto-assign, whatever the scan or the
\* notification did, completes the handler without an error and leaves the
\* ticket claimed by the claimer.
C20_BestEffortNeverFails ==
  [][/\ \A i \in 1 .. MaxRatingOps :
          (ratingOps[i].pc = "star" /\ ratingOps'[i] # ratingOps[i])
          => LET u == ratingOps[i].user
             IN /\ ratingLog'[u].completed = ratingLog[u].completed + 1
                /\ ratingLog'[u].raised = ratingLog[u].raised
                /\ userRatings' = userRatings /\ ratingMetric' = ratingMetric
                /\ (users[u].exists /\ ~ratingLog[u].overlap)
                   => userRatings'[u].count >= ratingOps[i].snap.count + 1
     /\ \A i \in 1 .. MaxTicketOps :
          (ticketOps[i].kind = "claim" /\ ticketOps[i].pc = "analytics"
             /\ ticketOps'[i] # ticketOps[i])
          => LET t == ticketOps[i].ticket
             IN /\ chanLog'[ticketOps[i].ch].claimEnd = "completed"
                /\ tickets'[t].status = "claimed"
                /\ tickets'[t].claimedBy = ticketOps[i].user]_vars

\* A rating whose star log could not be posted was completed and counted,
\* and a claim was completed with the ticket claimed.
C20_Witness ==
  /\ ratingLog["u1"].starFailed >= 1 /\ ratingLog["u1"].completed >= 1
  /\ userRatings["u1"].count >= 1
  /\ chanLog[1].claimEnd = "completed" /\ tickets[1].status = "claimed"

(***************************************************************************)
(* Specification of ticket creation followed by a rating: u1 opens         *)
(* tickets through the menu and the form and presses rate_5.               *)
(***************************************************************************)
CreateInit == RateInit

CreateNext ==
  \/ \E u \in Customers : HandleTicketTypeSelect(u) \/ HandleTicketModal(u)
  \/ \E i \in 1 .. MaxTicketOps :
       \/ CreateChannelDone(i) \/ CreateInsertDone(i) \/ CreateUserCountDone(i)
       \/ CreateAnalyticsDone(i) \/ CreatePanelDone(i)
  \/ \E u \in Customers : HandleRating(u, <<"5">>)
  \/ \E i \in 1 .. MaxRatingOps : RatingStep(i)

CreateSpec == CreateInit /\ [][CreateNext]_vars

\* createTicket of slot i is the only one of its user: the user has no other
\* ticket channel and no other createTicket in flight.
SoleCreation(i) ==
  LET u == ticketOps[i].user
  IN /\ \A c \in 1 .. Len(channels) :
          c # ticketOps[i].ch => ~(channels[c].exists /\ channels[c].topicUser = u)
     /\ \A j \in 1 .. MaxTicketOps :
          j # i => ~(ticketOps[j].kind = "create" /\ ticketOps[j].user = u)

\* The user has a ticket whose createTicket completed.
HasCreatedTicket(u) ==
  \E c \in 1 .. Len(channels) : channels[c].topicUser = u /\ channels[c].panel

IdleInit == GameInit

IdleStep(i) == StartLogDone(i) \/ EndGameStatsDone(i) \/ EndGameLogDone(i)

IdleNext ==
  \/ \E u \in Players, gameType \in GameTypes : HandleGameSelect(u, gameType)
  \/ \E g \in 1 .. MaxGames : TimerFire(g)
  \/ \E i \in 1 .. MaxGameOps : IdleStep(i)

IdleSpec ==
  /\ IdleInit /\ [][IdleNext]_vars
  /\ \A g \in 1 .. MaxGames : WF_vars(TimerFire(g))
  /\ \A i \in 1 .. MaxGameOps : WF_vars(IdleStep(i))

InSessionTable(g) == \E u \in Players : activeGames[u] = g

\* C22: every started session eventually leaves the session table without
\* any further input of its user, the timers being scheduled fairly.
C22_SessionEventuallyLeaves ==
  \A g \in 1 .. MaxGames : InSessionTable(g) ~> ~InSessionTable(g)

(***************************************************************************)
(* Specification of the messages: u1 starts games of three types; u1 and a *)
(* bot send messages in the guild and directly.                            *)
(***************************************************************************)
MessageInit == GameInit

MessageNext ==
  \/ \E u \in Players, gameType \in {"tictactoe", "math", "guess"} : HandleGameSelect(u, gameType)
  \/ \E author \in Players \cup Bots, guild \in BOOLEAN, content \in {NaN, Num(1)} :
       MessageCreate(author, guild, content)
  \/ \E g \in 1 .. MaxGames : TimerFire(g)
  \/ \E i \in 1 .. MaxGameOps :
       StartLogDone(i) \/ EndGameStatsDone(i) \/ EndGameLogDone(i) \/ GameReplyDone(i)

MessageSpec == MessageInit /\ [][MessageNext]_vars

\* C23: a message of a bot, a direct message, a message of a user without
\* a session and a message of a user whose session is not a Math Challenge
\* or a Number Guessing change nothing: session table, sessions, timers,
\* suspended handlers, user counters and analytics stay as they are.
C23_IgnoredMessageChangesNothing ==
  [][(/\ lastMove' # lastMove
      /\ lastMove'.kind \in {"message", "dm"}
      /\ \/ lastMove'.user \in Bots
         \/ lastMove'.kind = "dm"
         \/ lastMove'.had = 0
         \/ IF lastMove'.had # 0 THEN games[lastMove'.had].type \notin {"math", "guess"}
            ELSE FALSE)
     => UNCHANGED <<gameVars, storeVars>>]_vars

\* A direct message of u1 arrived while u1's Math Challenge was active.
C23_Witness ==
  /\ lastMove.kind = "dm" /\ lastMove.user = "u1" /\ lastMove.had # 0
  /\ IF lastMove.had # 0
     THEN games[lastMove.had].type = "math" /\ activeGames["u1"] = lastMove.had
     ELSE FALSE

(***************************************************************************)
(* Specification of the analytics table alone: log calls of both models,   *)
(* with numbers and with NaN (what handleRating passes for rate_x), over   *)
(* two days.                                                               *)
(***************************************************************************)
AnalyticsInit == RateInit

AnalyticsNext ==
  \/ \E metric \in LoggedMetrics, value \in {Num(1), Num(5), NaN} : Analytics_logEvent(metric, value)
  \/ \E metric \in LoggedMetrics, value \in {Num(1), Num(2)} : Ticket_logAnalytics(metric, value)
  \/ NextDay

AnalyticsSpec == AnalyticsInit /\ [][AnalyticsNext]_vars

RowsOf(date, metric) ==
  {r \in 1 .. Len(analyticsTable) :
     analyticsTable[r].date = date /\ analyticsTable[r].metric = metric}

\* C24: after any sequence of log calls the table has at most one row for
\* each (date, metric), a row exactly for the pairs that were logged, and
\* the row's value is the sum of the values logged for the pair; when one
\* of them was NaN the sum is NaN and the row holds NULL.
C24_OneRowPerDayAndMetric ==
  \A k \in Days \X LoggedMetrics :
    LET logged == analyticsLogged[k]
        rows == RowsOf(k[1], k[2])
    IN /\ Cardinality(rows) <= 1
       /\ Cardinality(rows) = 1 <=> logged.calls > 0
       /\ \A r \in rows :
            IF logged.nan THEN analyticsTable[r].value.null
            ELSE analyticsTable[r].value = [null |-> FALSE, n |-> logged.sum]

\* Three calls for one metric on day 1 and one on day 2: two rows for the
\* metric, the first with the sum of three values.
C24_Witness ==
  /\ analyticsLogged[<<1, "game_started">>].calls = 3
  /\ analyticsLogged[<<2, "game_started">>].calls = 1
  /\ ~analyticsLogged[<<1, "game_started">>].nan
  /\ Len(analyticsTable) = 2
  /\ analyticsTable[1].value.n = analyticsLogged[<<1, "game_started">>].sum

\* C25: after any interleaving of accepted rating submissions of one user
\* rating_count is the number of submissions written and
\* rating_average * rating_count is their sum: no rating is lost, also when
\* the handlers overlap.
C25_NoRatingLost ==
  \A u \in Raters :
    ratingLog[u].nanWrites = 0
    => /\ userRatings[u].count = ratingLog[u].accepted
       /\ userRatings[u].avg.num * userRatings[u].count
            = ratingLog[u].sum * userRatings[u].avg.den

\* The score the leaf has for the AI playing "O".
LeafScore(winner) == IF winner = "O" THEN 10 ELSE IF winner = "X" THEN -10 ELSE 0

\* C26: minimax scores a terminal board +10 when the AI has three in a row,
\* -10 when the human has, 0 when the board is full without a line,
\* whichever side is to move at that leaf; at a board that is not terminal
\* the AI to move gets the maximum of the scores of the boards its moves
\* lead to and the human to move the minimum (checked on the boards with at
\* most two empty cells).
C26_MinimaxScores ==
  \A g \in 1 .. Len(games) :
    games[g].type = "tictactoe" =>
      LET board == games[g].board
          winner == checkTicTacToeWinner(board)
          avail == availableMoves(board)
          child(k, player, opponent) ==
            minimax(Place(board, avail[k], player), opponent, player, "O").score
      IN /\ winner # Null =>
              /\ minimax(board, "X", "O", "O").score = LeafScore(winner)
              /\ minimax(board, "O", "X", "O").score = LeafScore(winner)
         /\ (winner = Null /\ Len(avail) <= 2) =>
              /\ \A k \in 1 .. Len(avail) :
                   /\ minimax(board, "O", "X", "O").score >= child(k, "O", "X")
                   /\ minimax(board, "X", "O", "O").score <= child(k, "X", "O")
              /\ \E k \in 1 .. Len(avail) :
                   minimax(board, "O", "X", "O").score = child(k, "O", "X")
              /\ \E k \in 1 .. Len(avail) :
                   minimax(board, "X", "O", "O").score = child(k, "X", "O")

(***************************************************************************)
(* Properties of the Tic-Tac-Toe board (checked in TTTSpec).               *)
(***************************************************************************)
TicTacToeGames == {g \in 1 .. Len(games) : games[g].type = "tictactoe"}

CountOf(board, sym) == Cardinality({c \in 1 .. 9 : board[c] = sym})

\* A cell that holds a symbol keeps it.
CellsWrittenOnce ==
  \A g \in TicTacToeGames :
    \A c \in 1 .. 9 : games[g].board[c] # Null => games'[g].board[c] = games[g].board[c]

\* A step that changes the board places X on an empty cell and, only when
\* that did not end the game, O on a cell that is empty after it.
HumanThenAI ==
  \A g \in TicTacToeGames :
    games'[g].board # games[g].board =>
      \E m \in Cells :
        /\ games[g].board[m + 1] = Null
        /\ LET played == Place(games[g].board, m, "X")
           IN IF checkTicTacToeWinner(played) # Null
              THEN games'[g].board = played
              ELSE \E a \in Cells :
                     played[a + 1] = Null /\ games'[g].board = Place(played, a, "O")

XAheadByAtMostOne ==
  \A g \in TicTacToeGames :
    CountOf(games[g].board, "X") - CountOf(games[g].board, "O") \in {0, 1}

\* The result a handler handed to endGame, against the board it holds.
ResultMatchesBoard ==
  \A i \in 1 .. MaxGameOps :
    gameOps[i].kind = "tictactoe" =>
      LET board == games[gameOps[i].g].board
      IN /\ gameOps[i].result = "win" <=> Line(board, "X")
         /\ gameOps[i].result = "lose" <=> Line(board, "O")
         /\ gameOps[i].result = "tie" <=>
              (BoardFull(board) /\ ~Line(board, "X") /\ ~Line(board, "O"))

\* C27: in every reachable state of a Tic-Tac-Toe session each cell is
\* written at most once (a move on an occupied cell changes nothing), the AI
\* moves only when the human's move did not end the game and only onto an
\* empty cell, the number of X minus the number of O is 0 or 1, and the
\* recorded result is win iff X has three in a row, lose iff O has, tie iff
\* the board is full with no line.
C27_TicTacToeInvariants ==
  /\ [][CellsWrittenOnce /\ HumanThenAI]_vars
  /\ [](XAheadByAtMostOne /\ ResultMatchesBoard)

\* A handler that entered endGame for session g is suspended.
EndingHandlers(g) == {i \in 1 .. MaxGameOps : gameOps[i].kind # "idle" /\ gameOps[i].g = g}

\* C28: once a Tic-Tac-Toe game has a winner or is tied, a further ttt_ move
\* of its user is rejected: no step changes the board of a decided game or
\* starts another endGame for it, so games_played is raised once and one
\* game_ended event is counted for it.
C28_FinishedGameRejectsMoves ==
  /\ [][\A g \in TicTacToeGames :
          games[g].winner # Null =>
            /\ games'[g].board = games[g].board
            /\ EndingHandlers(g)' \subseteq EndingHandlers(g)]_vars
  /\ [](\A g \in TicTacToeGames : gameEnds[g].stats <= 1 /\ gameEnds[g].events <= 1)

(***************************************************************************)
(* Specification of the Math Challenge alone: sessions are started,        *)
(* answered in the chat and timed out.                                     *)
(***************************************************************************)
\* What handleMathAnswer does with parseInt(message.content.trim()): the
\* invalid-number reply, or the end of the game as won or lost (attempts
\* reaches maxAttempts = 1 with the first number).
mathReply(gameState, content) ==
  IF content.nan THEN "invalid"
  ELSE IF content.n = gameState.secret THEN "win"
  ELSE "lose"

\* handleMessage on a Math Challenge session, with the answer in lastGuess.
HandleMathAnswer(u, content) ==
  /\ activeGames[u] # 0
  /\ IF activeGames[u] # 0 THEN games[activeGames[u]].type = "math" ELSE FALSE
  /\ handleMessage(u, content)
  /\ lastGuess' = [g |-> activeGames[u], guess |-> content,
                   reply |-> mathReply(games[activeGames[u]], content)]
  /\ UNCHANGED lastMove

MathInputs == {NaN, Num(1), Num(5)}

MathInit == GameInit

MathNext ==
  \/ \E u \in Players : HandleGameSelect(u, "math")
  \/ \E u \in Players, content \in MathInputs : HandleMathAnswer(u, content)
  \/ \E g \in 1 .. MaxGames : TimerFire(g)
  \/ \E i \in 1 .. MaxGameOps :
       StartLogDone(i) \/ EndGameStatsDone(i) \/ EndGameLogDone(i) \/ GameReplyDone(i)

MathSpec == MathInit /\ [][MathNext]_vars

MathGames == {g \in 1 .. Len(games) : games[g].type = "math"}

\* The step is an answer of handleMathAnswer to player u.
MathAnswered(u) ==
  /\ activeGames[u] # 0
  /\ IF activeGames[u] # 0 THEN games[activeGames[u]].type = "math" ELSE FALSE
  /\ lastGuess'.g = activeGames[u]
  /\ lastGuess' # lastGuess \/ games' # games

\* C29: a Math Challenge session allows exactly one numeric attempt.  The
\* first number sent ends the session, as won iff it equals the answer and
\* as lost otherwise, and the session is out of activeGames when its handler
\* is done; a reply that is no number leaves attempts and session unchanged;
\* no session ever counts a second attempt.
C29_MathOneAttempt ==
  /\ [][\A u \in Players :
          MathAnswered(u) =>
            LET g == activeGames[u]
                answer == lastGuess'.guess
            IN /\ answer.nan =>
                    games' = games /\ activeGames' = activeGames /\ gameOps' = gameOps
               /\ ~answer.nan =>
                    /\ games'[g].attempts = games[g].attempts + 1
                    /\ games'[g].result = (IF answer.n = games[g].secret THEN "win" ELSE "lose")
                    /\ \E i \in 1 .. MaxGameOps :
                         gameOps'[i].kind = "math" /\ gameOps'[i].g = g]_vars
  /\ [](\A g \in MathGames :
          /\ games[g].attempts <= 1
          /\ (games[g].result # "none" /\ Handling(g) = {}) =>
               \A u \in Players : activeGames[u] # g)

(***************************************************************************)
(* Questions of the Math Challenge (GameHandler.generateMathQuestion).     *)
(* A value of Math.random() is a fraction <<n, d>> with 0 <= n < d.        *)
(***************************************************************************)
\* config.GAMES.MATH.DIFFICULTIES; a missing includeMultiplication is falsy.
MathDifficulties ==
  [easy |-> [range |-> 10, includeMultiplication |-> FALSE],
   normal |-> [range |-> 50, includeMultiplication |-> FALSE],
   hard |-> [range |-> 100, includeMultiplication |-> TRUE]]

\* Object.keys(config.GAMES.MATH.DIFFICULTIES)
DifficultyKeys == <<"easy", "normal", "hard">>

RandomDraws == { <<0, 1>>, <<1, 4>>, <<1, 2>>, <<3, 4>>, <<99, 100>> }

\* Math.floor(Math.random() * k)
floorRandom(r, k) == (r[1] * k) \div r[2]

\* const operations = ['+', '-', '*'];
\* if (diffConfig.includeMultiplication) operations.push('*');
operations(diffConfig) ==
  <<"+", "-", "*">> \o (IF diffConfig.includeMultiplication THEN <<"*">> ELSE << >>)

generateMathQuestion(difficulty, rOp, r1, r2) ==
  LET diffConfig == MathDifficulties[difficulty]
      range == diffConfig.range
      ops == operations(diffConfig)
  IN [difficulty |-> difficulty,
      operation |-> ops[floorRandom(rOp, Len(ops)) + 1],
      num1 |-> floorRandom(r1, range) + 1,
      num2 |-> floorRandom(r2, range) + 1]

\* startMathGame draws the difficulty and builds the question.
StartMathQuestion(rDiff, rOp, r1, r2) ==
  /\ mathQuestion' =
       generateMathQuestion(DifficultyKeys[floorRandom(rDiff, Len(DifficultyKeys)) + 1],
                            rOp, r1, r2)
  /\ UNCHANGED <<rateVars, storeVars, ticketVars, gameVars, ratingVars, lastMove, hangmanGames,
                 lastGuess, rpsGames, today, analyticsTable, analyticsLogged, storeFailures,
                 modalVars>>

QuestionInit == RateInit

QuestionNext ==
  \E rDiff \in RandomDraws, rOp \in RandomDraws, r1 \in RandomDraws, r2 \in RandomDraws :
    StartMathQuestion(rDiff, rOp, r1, r2)

QuestionSpec == QuestionInit /\ [][QuestionNext]_vars

\* C30: generateMathQuestion gives a multiplication only for a difficulty
\* whose configuration sets includeMultiplication (hard); for easy and
\* normal the operator is + or -; both operands lie in 1 .. range of the
\* difficulty.
C30_MultiplicationOnlyWhenConfigured ==
  mathQuestion # NoQuestion =>
    LET diffConfig == MathDifficulties[mathQuestion.difficulty]
    IN /\ mathQuestion.operation = "*" => diffConfig.includeMultiplication
       /\ mathQuestion.difficulty \in {"easy", "normal"} => mathQuestion.operation \in {"+", "-"}
       /\ mathQuestion.num1 \in 1 .. diffConfig.range
       /\ mathQuestion.num2 \in 1 .. diffConfig.range

(***************************************************************************)
(* Properties of a live Hangman session (checked in HangmanSpec).          *)
(***************************************************************************)
\* Session g of GameHandler is live: in the table and not ended by a handler.
HangmanLive(g) ==
  /\ games[g].type = "hangman"
  /\ activeGames[games[g].userId] = g
  /\ ~HangmanDecided(g)

\* Game id of the class Hangman is live: in its Map and not over.
HangmanClassLive(id) == hangmanGames[id].present /\ ~hangmanGames[id].gameOver

\* C31: in every state of a live Hangman session position i of the display
\* shows word[i] iff word[i] is among the guessed letters, wrongGuesses is
\* the number of guessed letters that are not in the word and is below
\* maxWrongGuesses; a guess of a letter guessed before changes nothing: a
\* step that adds no letter leaves display and wrongGuesses as they are, and
\* a step adds at most one letter.  For GameHandler and for the class
\* Hangman.
C31_HangmanBoard ==
  /\ [](\A g \in 1 .. Len(games) :
          HangmanLive(g) =>
            /\ \A k \in DOMAIN games[g].word :
                 (games[g].display[k] = games[g].word[k]) <=> (games[g].word[k] \in games[g].guessed)
            /\ games[g].wrongGuesses = Cardinality(games[g].guessed \ Chars(games[g].word))
            /\ games[g].wrongGuesses < games[g].maxWrongGuesses)
  /\ [](\A id \in DOMAIN hangmanGames :
          HangmanClassLive(id) =>
            LET game == hangmanGames[id]
            IN /\ \A k \in DOMAIN game.word :
                    (game.displayWord[k] = game.word[k]) <=> (<<game.word[k]>> \in game.guessedLetters)
               /\ game.wrongGuesses =
                    Cardinality({l \in game.guessedLetters : ~includes(game.word, l)})
               /\ game.wrongGuesses < game.maxWrongGuesses)
  /\ [][/\ \A g \in 1 .. Len(games) :
             HangmanLive(g) =>
               /\ games'[g].guessed = games[g].guessed =>
                    /\ games'[g].display = games[g].display
                    /\ games'[g].wrongGuesses = games[g].wrongGuesses
               /\ games[g].guessed \subseteq games'[g].guessed
               /\ Cardinality(games'[g].guessed \ games[g].guessed) <= 1
        /\ \A id \in DOMAIN hangmanGames :
             HangmanClassLive(id) =>
               /\ hangmanGames'[id].guessedLetters = hangmanGames[id].guessedLetters =>
                    /\ hangmanGames'[id].displayWord = hangmanGames[id].displayWord
                    /\ hangmanGames'[id].wrongGuesses = hangmanGames[id].wrongGuesses
               /\ hangmanGames[id].guessedLetters \subseteq hangmanGames'[id].guessedLetters
               /\ Cardinality(hangmanGames'[id].guessedLetters
                                \ hangmanGames[id].guessedLetters) <= 1]_vars

\* A live session of GameHandler with a letter of the word shown and five
\* wrong guesses, and such a game of the class.
C31_Witness ==
  \/ /\ Len(games) = 1
     /\ IF Len(games) = 1
        THEN /\ HangmanLive(1)
             /\ games[1].wrongGuesses = 5
             /\ \E k \in DOMAIN games[1].word : games[1].display[k] = games[1].word[k]
        ELSE FALSE
  \/ /\ Len(hangmanGames) = 1
     /\ IF Len(hangmanGames) = 1
        THEN /\ HangmanClassLive(1)
             /\ hangmanGames[1].wrongGuesses = 5
             /\ \E k \in DOMAIN hangmanGames[1].word :
                  hangmanGames[1].displayWord[k] = hangmanGames[1].word[k]
        ELSE FALSE

(***************************************************************************)
(* Specification of ticket creation with a failing store: the INSERT of    *)
(* Ticket.create may reject.                                               *)
(***************************************************************************)
\* INSERT INTO tickets rejected: Ticket.create throws, the catch of
\* createTicket logs the error and edits the reply.  Nothing is undone.
CreateInsertFailed(i) ==
  /\ ticketOps[i].kind = "create" /\ ticketOps[i].pc = "insert"
  /\ ticketOps' = [ticketOps EXCEPT ![i] = IdleOp]
  /\ UNCHANGED <<otherVars, rateVars, storeVars, gameVars, staff, channels, tickets, forms,
                 closeForms, chanLog, deleteTimers, ratingRequests>>

StoreFailInit == RateInit

StoreFailNext ==
  \/ \E u \in Customers : HandleTicketTypeSelect(u) \/ HandleTicketModal(u)
  \/ \E i \in 1 .. MaxTicketOps :
       \/ CreateChannelDone(i) \/ CreateInsertDone(i) \/ CreateUserCountDone(i)
       \/ CreateAnalyticsDone(i) \/ CreatePanelDone(i)
       \/ CreateInsertFailed(i)

StoreFailSpec == StoreFailInit /\ [][StoreFailNext]_vars

\* C32: when the INSERT of the ticket row fails in createTicket (the channel
\* has been created), the operation fails as a whole: the channel is gone,
\* there is no row for it, tickets_created is as before, and the user, who
\* has no other ticket and no other creation under way, is not found to
\* have a ticket by the next selection.
C32_FailedCreateLeavesNothing ==
  [][\A i \in 1 .. MaxTicketOps :
       (ticketOps[i].kind = "create" /\ ticketOps[i].pc = "insert" /\ ticketOps'[i].kind = "idle")
       => LET u == ticketOps[i].user
              ch == ticketOps[i].ch
          IN /\ ~channels'[ch].exists
             /\ \A t \in 1 .. Len(tickets') : tickets'[t].channelId # ch
             /\ users'[u] = users[u]
             /\ SoleCreation(i) => findExistingTicketByUser(u, channels') = 0]_vars

(***************************************************************************)
(* Specification of the games with a failing store: a call of endGame      *)
(* (User.updateStats, Analytics.logEvent) may reject.                      *)
(***************************************************************************)
\* The store call a handler awaits inside endGame rejected: endGame throws
\* and so does its caller, before activeGames.delete.  The dispatcher logs
\* the error; the timeout callback has no catch at all.
MaxStoreFailures == 1

EndGameStoreFailed(i) ==
  /\ storeFailures < MaxStoreFailures
  /\ gameOps[i].kind \notin {"idle", "start"}
  /\ gameOps[i].pc \in {"stats", "log"}
  /\ gameOps' = [gameOps EXCEPT ![i] = IdleGameOp]
  /\ storeFailures' = storeFailures + 1
  /\ UNCHANGED <<ratingVars, lastMove, hangmanGames, lastGuess, rpsGames, today, analyticsTable,
                 analyticsLogged, mathQuestion, modalVars, rateVars, storeVars, ticketVars,
                 activeGames,
                 games, timers, gameEnds, lastStart, aiRandomUsed>>

EndFailInit == GameInit

EndFailNext ==
  \/ \E u \in Players, gameType \in {"rps", "math"} : HandleGameSelect(u, gameType)
  \/ \E u \in Players : HandleRockPaperScissors(u, "rock", "paper")
  \/ \E u \in Players : HandleMessage(u, Num(1))
  \/ \E g \in 1 .. MaxGames : TimerFire(g)
  \/ \E i \in 1 .. MaxGameOps : GameStep(i)
  \/ \E i \in 1 .. MaxGameOps : EndGameStoreFailed(i)

EndFailSpec == EndFailInit /\ [][EndFailNext]_vars

\* The handlers that delete the session after endGame: the rps_, trivia_
\* and Hangman handlers, the chat answers and the timeout callback.
RemovingKinds == {"rps", "trivia", "hangman", "math", "guess", "timeout"}

\* C33: when a store call inside endGame fails, the session is still taken
\* out of activeGames on every terminating path: a handler of a button
\* move, of a chat answer or of the timeout that is done, with or without
\* an error, leaves no entry of its session in the table.
C33_SessionRemovedDespiteStoreFailure ==
  [][\A i \in 1 .. MaxGameOps :
       (gameOps[i].kind \in RemovingKinds /\ gameOps'[i].kind = "idle")
       => activeGames'[gameOps[i].user] # gameOps[i].g]_vars

\* The entry of key k in map m after the step.
MapOfNext(m) == IF m = "ticket" THEN ticketRateLimits' ELSE gameRateLimits'

\* C34: denied calls never extend a rate-limit window.  Whatever calls a key
\* makes while now <= resetTime, allowed or denied, resetTime stays the value
\* set by the call that opened the window; and a call made after that time
\* is allowed and opens the next window.
C34_DeniedCallsKeepWindow ==
  [][\A m \in RateMaps : \A k \in RateKeys[m] :
       MapOf(m)[k] # Absent =>
         /\ (now <= MapOf(m)[k].resetTime /\ now' = now) =>
              /\ MapOfNext(m)[k] # Absent
              /\ MapOfNext(m)[k].resetTime = MapOf(m)[k].resetTime
              /\ MapOfNext(m)[k].count >= MapOf(m)[k].count
         /\ (now > MapOf(m)[k].resetTime /\ rlLast' # rlLast
               /\ rlLast'.map = m /\ rlLast'.key = k) =>
              /\ rlLast'.allowed
              /\ MapOfNext(m)[k] = [count |-> 1, resetTime |-> now + LimitsOf(m).WINDOW_MS]]_vars

\* A game request was denied at the very end of the window opened at time 0,
\* and the window still ends when it was set to end.
C34_Witness ==
  /\ rlLast.map = "game" /\ ~rlLast.allowed
  /\ rlLast.at = GAME_WINDOW_MS
  /\ gameRateLimits[rlLast.key] # Absent
  /\ gameRateLimits[rlLast.key].resetTime = GAME_WINDOW_MS
  /\ gameRateLimits[rlLast.key].count > GAME_MAX_REQUESTS

\* C35: cleanupRateLimits removes exactly the entries whose window has
\* expired (now > resetTime) and callers cannot tell whether it ran.  An
\* entry only ever disappears after its reset time; the sweep of a reachable
\* map drops every expired entry and keeps every other one; and for every
\* key and every later instant a call on the swept map returns the same
\* answer and leaves the same entry for the key as a call on the map that
\* was not swept, so that every later sequence of calls is answered alike.
\* Against the window counted without any sweep: an entry that is present
\* and not expired holds that window's count and reset time.
C35_SweepInvisible ==
  /\ [][\A m \in RateMaps : \A k \in RateKeys[m] :
          (MapOf(m)[k] # Absent /\ MapOfNext(m)[k] = Absent) => now > MapOf(m)[k].resetTime]_vars
  /\ [](\A m \in RateMaps :
          LET swept == cleanupRateLimits(MapOf(m), now)
          IN \A k \in RateKeys[m] :
               /\ swept[k] = (IF MapOf(m)[k] # Absent /\ now > MapOf(m)[k].resetTime
                              THEN Absent ELSE MapOf(m)[k])
               /\ \A t \in TimePoints :
                    t >= now =>
                      LET a == checkRateLimit(MapOf(m), k, LimitsOf(m), t)
                          b == checkRateLimit(swept, k, LimitsOf(m), t)
                      IN a.allowed = b.allowed /\ a.map[k] = b.map[k]
               /\ (MapOf(m)[k] # Absent /\ now <= MapOf(m)[k].resetTime) =>
                    /\ MapOf(m)[k].count = rlRef[m][k].idx
                    /\ MapOf(m)[k].resetTime = rlRef[m][k].reset)

\* The sweep removed the expired entry of a key that had been denied in
\* its window.
C35_Witness ==
  /\ gameRateLimits["u1"] = Absent
  /\ rlRef["game"]["u1"].idx > GAME_MAX_REQUESTS
  /\ now > rlRef["game"]["u1"].reset

(***************************************************************************)
(* Who counts as having an open ticket (utils.findExistingTicketByUser as  *)
(* used by handleTicketTypeSelect; AdminHandler.handleAddUser).            *)
(***************************************************************************)
\* The /adduser command in channel ch: staff check, Ticket.findByChannelId,
\* then a ViewChannel overwrite for the named user.  Between its awaits the
\* handler keeps nothing but its arguments, and the edit is its only write.
HandleAddUser(s, user, ch) ==
  /\ ch \in 1 .. Len(channels)
  /\ channels[ch].exists
  /\ IF hasStaffPermissions(s) /\ findByChannelId(ch) # 0
     THEN channels' = [channels EXCEPT ![ch].viewers = @ \cup {user}]
     ELSE UNCHANGED channels
  /\ UNCHANGED <<otherVars, rateVars, storeVars, gameVars, staff, tickets, forms, closeForms,
                 ticketOps, chanLog, deleteTimers, ratingRequests>>

Guests == {"s2"}   \* whom a staff member adds to the ticket of u1

ExistingInit == LifecycleInit

\* The steps of the handlers started here: lock and close.
ExistingStep(i) ==
  \/ LockEveryoneDone(i) \/ LockActorDone(i) \/ VisibilityEditFailed(i)
  \/ CloseFindDone(i) \/ CloseDmDone(i) \/ CloseUpdateDone(i) \/ CloseCountDone(i)
  \/ CloseAnalyticsDone(i) \/ CloseReplyDone(i)

ExistingNext ==
  \/ \E u \in Users : HandleTicketTypeSelect(u)
  \/ \E s \in Agents, u \in Guests : HandleAddUser(s, u, 1)
  \/ \E s \in Agents : HandleLockTicket(s, 1)
  \/ \E s \in Agents : HandleCloseTicket(s, 1)
  \/ \E s \in Agents : HandleCloseReasonModal(s, 1, "resolved")
  \/ \E i \in 1 .. MaxTicketOps : ExistingStep(i)
  \/ DeleteChannel(1)

ExistingSpec == ExistingInit /\ [][ExistingNext]_vars

\* The step is a ticket-type selection of u that passed the rate limit and
\* opened no form: the reply was "you already have an open ticket".
RejectedForExistingTicket(u) ==
  /\ ticketRateLimits'[u] # ticketRateLimits[u]
  /\ ticketRateLimits'[u].count <= TICKET_MAX_REQUESTS
  /\ forms'[u] = forms[u]

OwnsActiveTicket(u) == \E t \in 1 .. Len(tickets) : tickets[t].userId = u /\ Active(t)

\* C36: a ticket-type selection of user U is rejected with "you already have
\* an open ticket" only if U owns a ticket whose status is open or claimed
\* (not for a closed ticket whose channel still exists, not for having been
\* added to another user's channel, not for having locked a ticket).
C36_RejectedOnlyForActiveTicket ==
  [][\A u \in Users : RejectedForExistingTicket(u) => OwnsActiveTicket(u)]_vars

(***************************************************************************)
(* The dispatcher of submitted forms (index.js handleModalSubmit, which    *)
(* falls back to InteractionHandler.handleModalSubmit).  A customId is the *)
(* sequence of its parts between underscores.                              *)
(***************************************************************************)
\* customId.startsWith(prefix + '_')
startsWith(customId, prefix) == Len(customId) > 1 /\ customId[1] = prefix

hangman_guess == <<"hangman", "guess">>
hangman_guess_modal == <<"hangman", "guess", "modal">>

TicketModalIds ==
  { <<"buy", "tool", "modal">>, <<"idea", "modal">>, <<"support", "modal">>,
    <<"partnership", "modal">>, <<"partisanship", "modal">> }

SettingsPrefixes == {"ticket", "game", "logging", "whitelist", "custom", "backup"}

\* InteractionHandler.handleModalSubmit: the switch on customId.
InteractionHandler_handleModalSubmit(customId) ==
  IF customId \in TicketModalIds THEN "handleTicketModal"
  ELSE IF customId = <<"close", "reason", "modal">> THEN "handleCloseReasonModal"
  ELSE IF customId = <<"math", "difficulty">> THEN "handleMathDifficultyModal"
  ELSE IF customId = <<"trivia", "answer">> THEN "handleTriviaAnswerModal"
  ELSE IF customId = <<"settings", "modal">> THEN "handleSettingsModal"
  ELSE "unknown"

\* handleModalSubmit of index.js: the handler a submitted form is given to
\* ("unknown": the reply 'Unknown modal submission.').
handleModalSubmit(customId) ==
  IF customId \in TicketModalIds THEN "handleTicketModal"
  ELSE IF customId = <<"close", "reason", "modal">> THEN "handleCloseReasonModal"
  ELSE IF customId = <<"math", "difficulty">> THEN "handleMathDifficultyModal"
  ELSE IF customId = <<"trivia", "answer", "modal">> THEN "handleTriviaAnswerModal"
  ELSE IF \E prefix \in SettingsPrefixes : startsWith(customId, prefix)
       THEN "handleSettingsModal"
  ELSE InteractionHandler_handleModalSubmit(customId)

\* The "Guess Letter" button of a Hangman message: handleButton of index.js
\* gives every hangman_ button to handleGameButton, which calls
\* handleHangman; it shows the form hangman_guess_modal and tests nothing.
HandleHangman(u) ==
  /\ \E g \in 1 .. Len(games) : games[g].type = "hangman" /\ games[g].userId = u
  /\ modalsShown' = modalsShown \cup {<<u, hangman_guess_modal>>}
  /\ UNCHANGED <<ratingVars, lastMove, hangmanGames, lastGuess, rpsGames, today, analyticsTable,
                 analyticsLogged, mathQuestion, storeFailures, lastModal, rateVars, storeVars,
                 ticketVars, gameVars>>

\* A shown form is submitted with the text of its field and dispatched.
ModalSubmit(u, customId, text) ==
  /\ <<u, customId>> \in modalsShown
  /\ handleModalSubmit(customId) \in {"handleHangmanGuessModal", "unknown"}
  /\ modalsShown' = modalsShown \ {<<u, customId>>}
  /\ lastModal' = [user |-> u, customId |-> customId, handler |-> handleModalSubmit(customId)]
  /\ IF handleModalSubmit(customId) = "handleHangmanGuessModal"
     THEN handleHangmanGuessModal(u, text)
     ELSE UNCHANGED <<ratingVars, lastMove, hangmanGames, lastGuess, rpsGames, today,
                      analyticsTable, analyticsLogged, mathQuestion, storeFailures, rateVars,
                      storeVars, ticketVars, gameVars>>

DispatchInit == GameInit

DispatchNext ==
  \/ \E u \in Players : HandleGameSelect(u, "hangman")
  \/ \E u \in Players : HandleHangman(u)
  \/ \E u \in Players, text \in HangmanInputs : ModalSubmit(u, hangman_guess_modal, text)
  \/ \E g \in 1 .. MaxGames : TimerFire(g)
  \/ \E i \in 1 .. MaxGameOps : IdleStep(i)

DispatchSpec == DispatchInit /\ [][DispatchNext]_vars

\* No Hangman session is ever ended by a guess: no handler of a guess runs,
\* and every statistics update of a Hangman session is the timeout's.
HangmanEndsOnlyByTimeout ==
  /\ \A i \in DOMAIN gameOps : gameOps[i].kind # "hangman"
  /\ \A g \in 1 .. Len(games) : games[g].type = "hangman" => games[g].guessed = {}

\* C37: driven through the dispatcher of index.js, a submission of
\* hangman_guess_modal is given to GameHandler.handleHangmanGuessModal (so
\* that a Hangman session can be won or lost by guesses, without the timeout).
C37_HangmanGuessRouted ==
  lastModal.customId = hangman_guess_modal => lastModal.handler = "handleHangmanGuessModal"

(***************************************************************************)
(* From the ticket panel to createTicket: the values of the ticket_type    *)
(* menu (sendTicketPanel), the form createTicketModal builds for a value,  *)
(* and the dispatch of the submitted form.                                 *)
(***************************************************************************)
\* The options of the menu sendTicketPanel posts.
TicketMenuValues == {"buy_private_bot", "idea", "support", "partnership"}

\* A switch that matched no case leaves `modal` undefined.
Undefined == << >>

\* createTicketModal: the customId of the form built for a ticket type.
createTicketModal(ticketType) ==
  CASE ticketType = "purchase_help" -> <<"buy", "tool", "modal">>
    [] ticketType = "idea" -> <<"idea", "modal">>
    [] ticketType = "support" -> <<"support", "modal">>
    [] ticketType = "partnership" -> <<"partnership", "modal">>
    [] ticketType = "partisanship" -> <<"partisanship", "modal">>
    [] OTHER -> Undefined

\* The case labels of createTicketModal and the forms it can produce.
ModalCases == {"purchase_help", "idea", "support", "partnership", "partisanship"}
FormIds == {createTicketModal(ticketType) : ticketType \in ModalCases}

\* handleTicketModal: the customIds for which its switch sets ticketData.
ProcessedIds ==
  { <<"buy", "tool", "modal">>, <<"idea", "modal">>, <<"support", "modal">>,
    <<"partnership", "modal">>, <<"partisanship", "modal">> }

\* The selection passes the rate limit and the search for an existing ticket.
SelectionPasses(u) ==
  /\ checkRateLimit(ticketRateLimits, u, TICKET_RATE_LIMIT, now).allowed
  /\ findExistingTicketByUser(u, channels) = 0

\* handleTicketTypeSelect with the value selected.  interaction.showModal
\* throws for an undefined form; the dispatcher catches and replies with an
\* error message.  At most one copy of a form is open for a user.
SelectTicketType(u, ticketType) ==
  LET modal == createTicketModal(ticketType)
      shown == SelectionPasses(u) /\ modal # Undefined
  IN /\ forms[u] < MaxForms
     /\ ticketRateLimits[u] = Absent \/ ticketRateLimits[u].count < MaxSelects
     /\ <<u, modal>> \notin modalsShown
     /\ ticketRateLimits' = checkRateLimit(ticketRateLimits, u, TICKET_RATE_LIMIT, now).map
     /\ forms' = IF shown THEN [forms EXCEPT ![u] = @ + 1] ELSE forms
     /\ modalsShown' = IF shown THEN modalsShown \cup {<<u, modal>>} ELSE modalsShown
     /\ UNCHANGED <<ratingVars, lastMove, hangmanGames, lastGuess, rpsGames, today, analyticsTable,
                    analyticsLogged, mathQuestion, storeFailures, lastModal, now, gameRateLimits,
                    rlRef, rlLast, storeVars, gameVars, staff, channels, tickets, closeForms,
                    ticketOps, chanLog, deleteTimers, ratingRequests>>

\* A creation form is submitted and dispatched by handleModalSubmit; the
\* handler goes on to createTicket when its switch knows the form.
SubmitTicketModal(u, customId) ==
  /\ <<u, customId>> \in modalsShown
  /\ handleModalSubmit(customId) = "handleTicketModal"
  /\ customId \in ProcessedIds
  /\ modalsShown' = modalsShown \ {<<u, customId>>}
  /\ lastModal' = [user |-> u, customId |-> customId, handler |-> handleModalSubmit(customId)]
  /\ handleTicketModal(u)

PanelUsers == {"u1", "s1"}

PanelInit == RateInit

PanelNext ==
  \/ \E u \in PanelUsers, ticketType \in TicketMenuValues : SelectTicketType(u, ticketType)
  \/ \E u \in PanelUsers, customId \in FormIds : SubmitTicketModal(u, customId)
  \/ \E i \in 1 .. MaxTicketOps :
       \/ CreateChannelDone(i) \/ CreateInsertDone(i) \/ CreateUserCountDone(i)
       \/ CreateAnalyticsDone(i) \/ CreatePanelDone(i)

PanelSpec == PanelInit /\ [][PanelNext]_vars

\* C38: every value the ticket-type menu offers gets a creation form from
\* createTicketModal (a selection that passes the rate limit and the search
\* for an existing ticket shows the form), and every form createTicketModal
\* can produce is given to handleTicketModal, which goes on to createTicket.
C38_OfferedTypesReachCreateTicket ==
  /\ [][\A u \in PanelUsers, ticketType \in TicketMenuValues :
          SelectTicketType(u, ticketType) /\ SelectionPasses(u)
            => <<u, createTicketModal(ticketType)>> \in modalsShown'
               /\ createTicketModal(ticketType) \in FormIds]_vars
  /\ [](\A customId \in FormIds :
          handleModalSubmit(customId) = "handleTicketModal" /\ customId \in ProcessedIds)

\* C39: the rating_submitted value of the day is the number of ratings
\* accepted that day: every rating event logged with a number adds exactly
\* 1 to it, whatever the rating, so the value equals the number of events.
C39_RatingMetricCountsRatings ==
  /\ [][(ratingMetric' # ratingMetric /\ ~ratingMetric'.null)
          => ratingMetric'.value = ratingMetric.value + 1]_vars
  /\ [](~ratingMetric.null => ratingMetric.value = ratingMetric.events)

====
